---- MODULE Spec2Model ----
(***************************************************************************)
(* A model of the browser-cli daemon (src/daemon.js) and of the named      *)
(* instance registry of its command line front end (src/bin/br.js).        *)
(*                                                                         *)
(* JavaScript strings are sequences of one-character strings, so that      *)
(* split/join, prefix tests and concatenation are computed, not assumed.   *)
(* XPath strings are sequences of atoms ("/", a lower-cased tag, "[k]"),   *)
(* concatenated exactly as the template literals of the source do.         *)
(***************************************************************************)
EXTENDS Integers, Sequences, FiniteSets, TLC

(***************************************************************************)
(* Bounds of the model.                                                    *)
(***************************************************************************)
MaxHistory == 2
MaxSecrets == 2
MaxHtmlLen == 3
MaxPagesEver == 3
MaxOpened == 2
MaxSelHistory == 1

(***************************************************************************)
(* Strings.                                                                *)
(***************************************************************************)
Digit == {"0", "1", "2", "3", "4", "5", "6", "7", "8", "9"}
DigitChars == <<"0", "1", "2", "3", "4", "5", "6", "7", "8", "9">>

\* The value of a missing JSON field (undefined); it is not a string.
Undefined == <<"<undefined>">>

\* The replacement token of GET /html.
MaskToken == <<"*", "*", "*">>

IsPrefix(s, t) == Len(s) <= Len(t) /\ SubSeq(t, 1, Len(s)) = s

Contains(t, s) ==
  \E i \in 1..(Len(t) - Len(s) + 1) : SubSeq(t, i, i + Len(s) - 1) = s

\* String(n) for a non-negative integer: the property key of idToXPath[n].
RECURSIVE ToStr(_)
ToStr(n) ==
  IF n < 10 THEN <<DigitChars[n + 1]>>
  ELSE ToStr(n \div 10) \o <<DigitChars[(n % 10) + 1]>>

\* html.replace(sep, rep): only the first occurrence is replaced.
RECURSIVE SplitJoinFirst(_, _, _)
SplitJoinFirst(html, sep, rep) ==
  IF html = <<>> THEN <<>>
  ELSE IF IsPrefix(sep, html)
       THEN rep \o SubSeq(html, Len(sep) + 1, Len(html))
       ELSE <<Head(html)>> \o SplitJoinFirst(Tail(html), sep, rep)

\* html.split(sep).join(rep) for a non-empty separator: the occurrences of
\* sep are found left to right, without overlap.
RECURSIVE SplitJoin(_, _, _)
SplitJoin(html, sep, rep) ==
  IF html = <<>> THEN <<>>
  ELSE IF IsPrefix(sep, html)
       THEN rep \o SplitJoin(SubSeq(html, Len(sep) + 1, Len(html)), sep, rep)
       ELSE <<Head(html)>> \o SplitJoin(Tail(html), sep, rep)

\* The loop of GET /html over the secret set, in insertion order.
RECURSIVE MaskSecrets(_, _)
MaskSecrets(html, secs) ==
  IF secs = <<>> THEN html
  ELSE MaskSecrets(IF Head(secs) = <<>> THEN html
                   ELSE SplitJoin(html, Head(secs), MaskToken),
                   Tail(secs))

\* Set.prototype.add on an insertion-ordered set.
SetAdd(secs, s) ==
  IF \E i \in 1..Len(secs) : secs[i] = s THEN secs ELSE Append(secs, s)

\* !isNaN(selector) && !isNaN(parseFloat(selector)), for tokens over an
\* alphabet of digits, ".", letters, "#", "/" and "*" (no sign, exponent or
\* blank): such a token is numeric exactly when it is made of digits and at
\* most one point, with at least one digit.
IsNumeric(tok) ==
  /\ tok # Undefined
  /\ \A i \in 1..Len(tok) : tok[i] \in Digit \cup {"."}
  /\ \E i \in 1..Len(tok) : tok[i] \in Digit
  /\ Cardinality({i \in 1..Len(tok) : tok[i] = "."}) <= 1

\* !x for a string or undefined.
Falsy(x) == x = Undefined \/ x = <<>>

(***************************************************************************)
(* State of the daemon.                                                    *)
(***************************************************************************)
VARIABLES
  pages,          \* the tab list, a sequence of page ids
  activePage,     \* the active page id, NoPage when there is none
  pagesEver,      \* number of pages created so far (ids are never reused)
  secrets,        \* the secret set, in insertion order
  history,        \* the action history
  lastIdToXPath,  \* the stored ID -> XPath map, keyed by decimal strings
  reqs,           \* the requests in flight, one record per connection
  resp,           \* the response sent last, until the next request arrives
  lastTree,       \* the CDP answer and the nodes of the tree sent last
  running,        \* the daemon process has not exited
  consoleLogs,    \* the captured console entries, each the arrival number
                  \* of its event
  consoleEvents,  \* the number of console events since the last clear
  files,          \* the files written by the daemon, in the order written
  shuttingDown,   \* the flag of that name
  browser,        \* "up", "closing" once context.close() has been called,
                  \* "gone" once the browser has disconnected
  exitCode,       \* the exit code of the daemon process, -1 while it runs
  bypass          \* the call of waitForChallengeBypass: its position, the
                  \* milliseconds since startTime, the outcome of the last
                  \* detection and what the call returned

daemonVars ==
  <<pages, activePage, pagesEver, secrets, history, lastIdToXPath, reqs, resp,
    lastTree, running, consoleLogs, consoleEvents, files, shuttingDown, browser,
    exitCode, bypass>>

\* The state that no request handler of the model touches but those of the
\* console, the downloads and the shutdown.
auxVars == <<consoleLogs, consoleEvents, files, shuttingDown, browser, bypass>>

\* State of the registry and of the br commands.
VARIABLES
  regFile,   \* instances.json: name -> [port, pid]
  alive,     \* the pids for which kill(pid, 0) succeeds
  daemons,   \* pid -> [envPort: the BR_PORT handed over, listen: the port bound
             \*         (0 if none), signalled: a termination signal was sent,
             \*         name: the BR_INSTANCE handed over]
  nextPid,   \* the pid the next spawned process gets
  foreign,   \* ports bound by other programs
  cli,       \* the br commands in flight
  regKind    \* what instances.json holds: "json" (regFile is the object it
             \* parses to), "missing", "malformed" or "unreadable"; regFile
             \* is then empty

regVars == <<regFile, alive, daemons, nextPid, foreign, cli, regKind>>

vars == <<daemonVars, regVars>>

NoPage == 0

\* No call of waitForChallengeBypass has been made.
NoBypass == [pc |-> "idle", elapsed |-> 0, max |-> 0, last |-> "none", result |-> "none"]

\* A request in flight: the position of its handler, its endpoint, the
\* selector token and the selector handed to the driver, its text argument,
\* the page it works on, the number of history entries it has appended, and
\* the status it has sent (res.headersSent), 0 while it has sent none.
Idle ==
  [pc |-> "idle", ep |-> "none", token |-> <<>>, actual |-> <<>>, arg |-> <<>>,
   page |-> NoPage, recorded |-> 0, sent |-> 0]

\* A JSON index is [kind, val]: kind "undefined" for a missing field, "null"
\* for null, "number" for the number val.
NoIndex == [kind |-> "undefined", val |-> 0]

NoResp ==
  [ep |-> "none", status |-> 0, cause |-> "none", prefix |-> "", msg |-> "none",
   token |-> <<>>, carried |-> Undefined, hint |-> "none",
   src |-> <<>>, body |-> <<>>, hist |-> <<>>, index |-> NoIndex]

\* function getActivePage
getActivePage == activePage

\* function record: history.push({action, args, timestamp})
record(hist, action, args) == Append(hist, [action |-> action, args |-> args])

\* A response: the endpoint and token it answers, the status, the branch of
\* the handler that sent it, the text of the body (prefix, then msg, then the
\* token the body carries, or Undefined), and the hint the body ends with.
Reply(ep, tok, status, cause, msg, carried, hint) ==
  [ep |-> ep, status |-> status, cause |-> cause, prefix |-> "", msg |-> msg,
   token |-> tok, carried |-> carried, hint |-> hint,
   src |-> <<>>, body |-> <<>>, hist |-> <<>>, index |-> NoIndex]

NoTree == [doc |-> [dom |-> <<>>, ax |-> <<>>], domXPath |-> <<>>, nodes |-> <<>>]

Lookup(map, key) == IF key \in DOMAIN map THEN map[key] ELSE Undefined

\* The hint that ends the body of a response.
NoHint == "none"
SelectorFormsHint == "Use CSS selectors, XPath, or numeric IDs from view-tree"
UseSelectorHint == "Try using --selector"

InteractionEndpoints == {"click", "fill", "fill-secret", "type", "scroll-into-view"}

\* The action name the endpoint hands to resolveAndPerformAction.
RecordAction(ep) == IF ep = "scroll-into-view" THEN "scrollIntoView" ELSE ep

\* { selector, secret }: the secret recorded with the selector.
RecordArgsWithSecret(ep, tok, arg) ==
  IF ep \in {"fill", "type"} THEN [selector |-> tok, text |-> arg]
  ELSE IF ep = "fill-secret" THEN [selector |-> tok, secret |-> arg]
  ELSE [selector |-> tok]

\* { selector, ...recordArgs }
RecordArgs(ep, tok, arg) ==
  IF ep \in {"fill", "type"} THEN [selector |-> tok, text |-> arg]
  ELSE [selector |-> tok]

\* res.send / res.status(..).send: the response goes out and the handler ends.
Send(r, reply) ==
  /\ reqs' = [reqs EXCEPT ![r] = Idle]
  /\ resp' = reply

Suspend(r, pc, ep, tok, actual, arg, page) ==
  reqs' = [reqs EXCEPT ![r] = [pc |-> pc, ep |-> ep, token |-> tok,
                               actual |-> actual, arg |-> arg, page |-> page,
                               recorded |-> reqs[r].recorded, sent |-> reqs[r].sent]]

\* The catch block of resolveAndPerformAction.
ActionError(ep, tok) ==
  Reply(ep, tok, 500, "driver-error", "Error when action", Undefined, SelectorFormsHint)

\* resolveAndPerformAction with actualSelector never reassigned: the token
\* itself goes to the driver.
resolveAndPerformActionRaw(r, ep, tok, arg) ==
  IF Falsy(tok)
  THEN /\ Send(r, Reply(ep, tok, 400, "missing-field", "missing selector", Undefined, NoHint))
  ELSE IF IsNumeric(tok) /\ Falsy(Lookup(lastIdToXPath, tok))
  THEN /\ Send(r, Reply(ep, tok, 400, "unknown-id", "XPath not found for ID", Undefined, NoHint))
  ELSE IF getActivePage = NoPage
  THEN /\ Send(r, ActionError(ep, tok))
  ELSE /\ Suspend(r, "check", ep, tok, tok, arg, getActivePage)
       /\ resp' = NoResp

\* resolveAndPerformAction with an unknown numeric ID falling back to the
\* token as a CSS selector.
resolveAndPerformActionFallback(r, ep, tok, arg) ==
  IF Falsy(tok)
  THEN /\ Send(r, Reply(ep, tok, 400, "missing-field", "missing selector", Undefined, NoHint))
  ELSE IF getActivePage = NoPage
  THEN /\ Send(r, ActionError(ep, tok))
  ELSE LET actualSelector == IF IsNumeric(tok) /\ ~Falsy(Lookup(lastIdToXPath, tok))
                             THEN Lookup(lastIdToXPath, tok) ELSE tok
       IN /\ Suspend(r, "check", ep, tok, actualSelector, arg, getActivePage)
          /\ resp' = NoResp

(***************************************************************************)
(* resolveAndPerformAction, up to its first await: the selector check, the *)
(* classification of the token and the lookup of a numeric ID.             *)
(***************************************************************************)
resolveAndPerformAction(r, ep, tok, arg) ==
  IF Falsy(tok)
  THEN /\ Send(r, Reply(ep, tok, 400, "missing-field", "missing selector", Undefined, NoHint))
  ELSE IF IsNumeric(tok) /\ Falsy(Lookup(lastIdToXPath, tok))
  THEN /\ Send(r, Reply(ep, tok, 400, "unknown-id", "XPath not found for ID", Undefined, NoHint))
  ELSE IF getActivePage = NoPage
  THEN /\ Send(r, ActionError(ep, tok))
  ELSE LET actualSelector == IF IsNumeric(tok) THEN Lookup(lastIdToXPath, tok) ELSE tok
       IN /\ Suspend(r, "check", ep, tok, actualSelector, arg, getActivePage)
          /\ resp' = NoResp

\* POST /click, /fill, /fill-secret, /type, /scroll-into-view: the request
\* arrives; fill, fill-secret and type first require their text.
InteractionArrive(r, ep, tok, arg) ==
  /\ running
  /\ reqs[r].pc = "idle"
  /\ ep \in InteractionEndpoints
  /\ IF ep \in {"fill", "type"} /\ arg = Undefined
     THEN /\ Send(r, Reply(ep, tok, 400, "missing-field", "missing text", Undefined, NoHint))
     ELSE IF ep = "fill-secret" /\ arg = Undefined
     THEN /\ Send(r, Reply(ep, tok, 400, "missing-field", "missing secret", Undefined, NoHint))
     ELSE resolveAndPerformAction(r, ep, tok,
            IF ep \in {"fill", "fill-secret", "type"} THEN arg ELSE <<>>)
  /\ UNCHANGED <<pages, activePage, pagesEver, secrets, history, lastIdToXPath, lastTree>>
  /\ UNCHANGED <<running, exitCode, auxVars, regVars>>

\* page.$ answers: no element, an element (actionFn is then called on the
\* page that is active now), or the driver throws.
InteractionChecked(r, outcome) ==
  /\ running
  /\ reqs[r].pc = "check"
  /\ reqs[r].ep \in InteractionEndpoints
  /\ LET q == reqs[r] IN
     CASE outcome = "none" ->
            /\ Send(r, Reply(q.ep, q.token, 400, "no-element",
                             "Element not found for selector", q.token, NoHint))
       [] outcome = "throw" \/ (outcome = "found" /\ getActivePage = NoPage) ->
            /\ Send(r, ActionError(q.ep, q.token))
       [] OTHER ->
            /\ Suspend(r, "act", q.ep, q.token, q.actual, q.arg, getActivePage)
            /\ UNCHANGED resp
  /\ UNCHANGED <<pages, activePage, pagesEver, secrets, history, lastIdToXPath, lastTree>>
  /\ UNCHANGED <<running, exitCode, auxVars, regVars>>

\* The driver action returns: on success fill-secret adds the secret, the
\* action is recorded with the caller's token, and 'ok' is sent.
InteractionActed(r, ok) ==
  /\ running
  /\ reqs[r].pc = "act"
  /\ reqs[r].ep \in InteractionEndpoints
  /\ LET q == reqs[r] IN
     IF ok
     THEN /\ Len(history) < MaxHistory
          /\ secrets' = IF q.ep = "fill-secret" THEN SetAdd(secrets, q.arg) ELSE secrets
          /\ Len(secrets') <= MaxSecrets
          /\ history' = record(history, RecordAction(q.ep), RecordArgs(q.ep, q.token, q.arg))
          /\ Send(r, Reply(q.ep, q.token, 200, "none", "ok", Undefined, NoHint))
     ELSE /\ Send(r, ActionError(q.ep, q.token))
          /\ UNCHANGED <<secrets, history>>
  /\ UNCHANGED <<pages, activePage, pagesEver, lastIdToXPath, lastTree>>
  /\ UNCHANGED <<running, exitCode, auxVars, regVars>>

(***************************************************************************)
(* GET /tree: the join of the DOM tree and the accessibility tree.         *)
(* A CDP answer is [dom, ax]: dom is the sequence of the DOM nodes (node 1 *)
(* is the root, children are positions in dom), ax the list of the         *)
(* accessibility nodes; backendDOMNodeId 0 stands for a missing one.       *)
(***************************************************************************)
Null == <<"<null>">>

MapSet(map, key, val) ==
  [k \in (DOMAIN map) \cup {key} |-> IF k = key THEN val ELSE map[k]]

\* String.prototype.toLowerCase on the node names of the model.
toLowerCase(name) ==
  CASE name = "HTML" -> "html"
    [] name = "BODY" -> "body"
    [] name = "UL" -> "ul"
    [] name = "LI" -> "li"
    [] name = "P" -> "p"
    [] OTHER -> name

SetMax(S) == CHOOSE x \in S : \A y \in S : y <= x
SetMin(S) == CHOOSE x \in S : \A y \in S : x <= y

\* function generateXPath(node, parentNode); p = 0 stands for parentNode = null
generateXPath(dom, i, p) ==
  IF dom[i].nodeName = "#document" THEN <<>>
  ELSE LET tagName == toLowerCase(dom[i].nodeName)
           kids == IF p = 0 THEN <<>> ELSE dom[p].children
           siblings == {j \in 1..Len(kids) : dom[kids[j]].nodeName = dom[i].nodeName}
           at == {j \in 1..Len(kids) : kids[j] = i}
           index == Cardinality({j \in siblings : j <= SetMin(at)})
       IN IF p # 0 /\ Cardinality(siblings) > 1
          THEN <<tagName, "[">> \o ToStr(index) \o <<"]">>
          ELSE <<tagName>>

\* function traverseDomAndMap(node, parentXPath, parentNode); maps holds
\* backendIdToDomNodeMap and idToXPath.
RECURSIVE traverseDomAndMap(_, _, _, _, _)
RECURSIVE traverseChildren(_, _, _, _, _, _)
traverseDomAndMap(dom, i, parentXPath, p, maps) ==
  LET currentSegment == generateXPath(dom, i, p)
      currentXPath == IF parentXPath # <<>>
                      THEN parentXPath \o <<"/">> \o currentSegment
                      ELSE <<"/">> \o currentSegment
      maps1 == [backendIdToDomNodeMap |->
                  MapSet(maps.backendIdToDomNodeMap, dom[i].backendNodeId, i),
                idToXPath |->
                  IF dom[i].nodeId # 0
                  THEN MapSet(maps.idToXPath, ToStr(dom[i].nodeId), currentXPath)
                  ELSE maps.idToXPath]
  IN traverseChildren(dom, dom[i].children, 1, currentXPath, i, maps1)

traverseChildren(dom, kids, k, xpath, p, maps) ==
  IF k > Len(kids) THEN maps
  ELSE traverseChildren(dom, kids, k + 1, xpath, p,
                        traverseDomAndMap(dom, kids[k], xpath, p, maps))

EmptyMaps == [backendIdToDomNodeMap |-> <<>>, idToXPath |-> <<>>]

\* The maps after traverseDomAndMap(domRoot).
DomMaps(doc) == traverseDomAndMap(doc.dom, 1, <<>>, 0, EmptyMaps)

\* axNodes.find(n => !childSet.has(n.nodeId)) || axNodes[0]
rootAx(ax) ==
  LET childSet == UNION {{ax[m].childIds[c] : c \in 1..Len(ax[m].childIds)} :
                              m \in 1..Len(ax)}
      roots == {j \in 1..Len(ax) : ax[j].nodeId \notin childSet}
  IN IF roots # {} THEN ax[SetMin(roots)] ELSE ax[1]

\* function buildTree(nodeId); st holds idToXPath and the nodes emitted so
\* far, in the order in which buildTree creates them.
RECURSIVE buildTree(_, _, _, _)
RECURSIVE buildChildren(_, _, _, _, _)
buildTree(doc, backend, st, nodeId) ==
  LET found == {j \in 1..Len(doc.ax) : doc.ax[j].nodeId = nodeId} IN
  IF found = {} THEN st
  ELSE LET axNode == doc.ax[SetMax(found)]
           domNode == IF axNode.backendDOMNodeId \in DOMAIN backend
                      THEN backend[axNode.backendDOMNodeId] ELSE 0
           key == ToStr(axNode.nodeId)
           tag == IF domNode # 0 THEN toLowerCase(doc.dom[domNode].nodeName) ELSE ""
           map1 == IF domNode # 0 /\ doc.dom[domNode].nodeId # 0
                   THEN MapSet(st.idToXPath, key,
                               Lookup(st.idToXPath, ToStr(doc.dom[domNode].nodeId)))
                   ELSE st.idToXPath
           node == [id |-> axNode.nodeId,
                    tag |-> IF tag # "" THEN <<"<", tag, ">">> ELSE Null,
                    xpath |-> IF Falsy(Lookup(map1, key)) THEN Null ELSE Lookup(map1, key)]
       IN buildChildren(doc, backend, [idToXPath |-> map1, nodes |-> Append(st.nodes, node)],
                        axNode.childIds, 1)

buildChildren(doc, backend, st, childIds, k) ==
  IF k > Len(childIds) THEN st
  ELSE buildChildren(doc, backend, buildTree(doc, backend, st, childIds[k]), childIds, k + 1)

\* The handler of GET /tree after its CDP calls: idToXPath and the emitted
\* nodes.
TreeResult(doc) ==
  LET maps == DomMaps(doc)
  IN buildTree(doc, maps.backendIdToDomNodeMap,
               [idToXPath |-> maps.idToXPath, nodes |-> <<>>],
               rootAx(doc.ax).nodeId)

(***************************************************************************)
(* POST /fill-search                                                       *)
(***************************************************************************)
searchSelectors ==
  << <<"input[type=\"search\"]">>, <<"input[name=\"q\"]">>, <<"input[name=\"query\"]">>,
     <<"input[name=\"search\"]">>, <<"input[placeholder*=\"search\" i]">>,
     <<"[role=\"searchbox\"]">>, <<"input[placeholder*=\"Search\" i]">> >>

\* The catch block of POST /fill-search: `Search error: ${err.message}` and
\* the hint; err.message of the errors that resolveSelector throws ends with
\* the token.
SearchError(tok, cause, carried) ==
  [Reply("fill-search", tok, 500, cause,
         CASE cause = "unknown-id" -> "XPath not found for ID"
           [] cause = "no-element" -> "Element not found for selector"
           [] OTHER -> "err.message",
         carried, UseSelectorHint)
     EXCEPT !.prefix = "Search error: "]

\* The request arrives: the query check, then resolveSelector up to its
\* page.$ for an explicit selector, or the first probe of the detection.
FillSearchArrive(r, query, tok) ==
  /\ running
  /\ reqs[r].pc = "idle"
  /\ IF Falsy(query)
     THEN /\ Send(r, Reply("fill-search", tok, 400, "missing-field", "missing query",
                           Undefined, NoHint))
     ELSE IF ~Falsy(tok) /\ IsNumeric(tok) /\ Falsy(Lookup(lastIdToXPath, tok))
     THEN /\ Send(r, SearchError(tok, "unknown-id", tok))
     ELSE IF getActivePage = NoPage
     THEN /\ Send(r, SearchError(tok, "driver-error", Undefined))
     ELSE IF ~Falsy(tok)
     THEN LET actualSelector == IF IsNumeric(tok) THEN Lookup(lastIdToXPath, tok) ELSE tok
          IN /\ Suspend(r, "check", "fill-search", tok, actualSelector, query, getActivePage)
             /\ resp' = NoResp
     ELSE /\ Suspend(r, "detect", "fill-search", tok, <<>>, query, getActivePage)
          /\ resp' = NoResp
  /\ UNCHANGED <<pages, activePage, pagesEver, secrets, history, lastIdToXPath, lastTree>>
  /\ UNCHANGED <<running, exitCode, auxVars, regVars>>

\* resolveSelector's page.$ answers; an element is then filled through its
\* handle.
FillSearchChecked(r, outcome) ==
  /\ running
  /\ reqs[r].pc = "check"
  /\ reqs[r].ep = "fill-search"
  /\ LET q == reqs[r] IN
     CASE outcome = "none" ->
            /\ Send(r, SearchError(q.token, "no-element", q.token))
       [] outcome = "throw" ->
            /\ Send(r, SearchError(q.token, "driver-error", Undefined))
       [] OTHER ->
            /\ Suspend(r, "act", q.ep, q.token, q.actual, q.arg, q.page)
            /\ UNCHANGED resp
  /\ UNCHANGED <<pages, activePage, pagesEver, secrets, history, lastIdToXPath, lastTree>>
  /\ UNCHANGED <<running, exitCode, auxVars, regVars>>

\* The detection loop ends: first = 0 when no selector of the list matched,
\* otherwise the position of the first one that did.
FillSearchDetected(r, first) ==
  /\ running
  /\ reqs[r].pc = "detect"
  /\ LET q == reqs[r] IN
     IF getActivePage = NoPage
     THEN /\ Send(r, SearchError(q.token, "driver-error", Undefined))
     ELSE IF first = 0
     THEN /\ Send(r, Reply("fill-search", q.token, 400, "no-search-input",
                           "No search input found", Undefined, UseSelectorHint))
     ELSE /\ Suspend(r, "act", q.ep, q.token, searchSelectors[first], q.arg, getActivePage)
          /\ UNCHANGED resp
  /\ UNCHANGED <<pages, activePage, pagesEver, secrets, history, lastIdToXPath, lastTree>>
  /\ UNCHANGED <<running, exitCode, auxVars, regVars>>

\* searchInput.fill returns; Enter is pressed on the page active now.
FillSearchFilled(r, ok) ==
  /\ running
  /\ reqs[r].pc = "act"
  /\ reqs[r].ep = "fill-search"
  /\ LET q == reqs[r] IN
     IF ~ok \/ getActivePage = NoPage
     THEN /\ Send(r, SearchError(q.token, "driver-error", Undefined))
     ELSE /\ Suspend(r, "press", q.ep, q.token, q.actual, q.arg, getActivePage)
          /\ UNCHANGED resp
  /\ UNCHANGED <<pages, activePage, pagesEver, secrets, history, lastIdToXPath, lastTree>>
  /\ UNCHANGED <<running, exitCode, auxVars, regVars>>

\* keyboard.press returns: record('search', { query, selector: foundSelector }).
FillSearchPressed(r, ok) ==
  /\ running
  /\ reqs[r].pc = "press"
  /\ LET q == reqs[r] IN
     IF ok
     THEN /\ Len(history) < MaxHistory
          /\ history' = record(history, "search", [query |-> q.arg, selector |-> q.actual])
          /\ Send(r, [Reply("fill-search", q.token, 200, "none", "ok", Undefined, NoHint)
                        EXCEPT !.body = q.actual])
     ELSE /\ Send(r, SearchError(q.token, "driver-error", Undefined))
          /\ UNCHANGED history
  /\ UNCHANGED <<pages, activePage, pagesEver, secrets, lastIdToXPath, lastTree>>
  /\ UNCHANGED <<running, exitCode, auxVars, regVars>>

(***************************************************************************)
(* POST /goto {url} and POST /press {key}                                  *)
(***************************************************************************)
SimpleArrive(r, ep, arg) ==
  /\ running
  /\ reqs[r].pc = "idle"
  /\ ep \in {"goto", "press"}
  /\ IF Falsy(arg)
     THEN /\ Send(r, Reply(ep, <<>>, 400, "missing-field",
                           IF ep = "goto" THEN "missing url" ELSE "missing key",
                           Undefined, NoHint))
     ELSE IF getActivePage = NoPage
     THEN /\ Send(r, Reply(ep, <<>>, 500, "driver-error", "err.message", Undefined, NoHint))
     ELSE /\ Suspend(r, "act", ep, <<>>, <<>>, arg, getActivePage)
          /\ resp' = NoResp
  /\ UNCHANGED <<pages, activePage, pagesEver, secrets, history, lastIdToXPath, lastTree>>
  /\ UNCHANGED <<running, exitCode, auxVars, regVars>>

SimpleDone(r, ok) ==
  /\ running
  /\ reqs[r].pc = "act"
  /\ reqs[r].ep \in {"goto", "press"}
  /\ LET q == reqs[r] IN
     IF ok
     THEN /\ Len(history) < MaxHistory
          /\ history' = record(history, q.ep,
                               IF q.ep = "goto" THEN [url |-> q.arg] ELSE [key |-> q.arg])
          /\ Send(r, Reply(q.ep, <<>>, 200, "none", "ok", Undefined, NoHint))
     ELSE /\ Send(r, Reply(q.ep, <<>>, 500, "driver-error", "err.message", Undefined, NoHint))
          /\ UNCHANGED history
  /\ UNCHANGED <<pages, activePage, pagesEver, secrets, lastIdToXPath, lastTree>>
  /\ UNCHANGED <<running, exitCode, auxVars, regVars>>

\* POST /goto of a daemon started with BR_HUMANLIKE=true: page.goto has
\* returned, and humanDelay(200, 400) is awaited before the action is
\* recorded. (SimpleDone is the handler without BR_HUMANLIKE, where
\* humanDelay is a resolved promise.)
GotoLoaded(r, ok) ==
  /\ running
  /\ reqs[r].pc = "act"
  /\ reqs[r].ep = "goto"
  /\ IF ok
     THEN /\ Suspend(r, "settle", "goto", <<>>, <<>>, reqs[r].arg, reqs[r].page)
          /\ UNCHANGED resp
     ELSE Send(r, Reply("goto", <<>>, 500, "driver-error", "err.message", Undefined, NoHint))
  /\ UNCHANGED <<pages, activePage, pagesEver, secrets, history, lastIdToXPath, lastTree>>
  /\ UNCHANGED <<running, exitCode, auxVars, regVars>>

\* The timer of humanDelay fires: record('goto', { url }) and 'ok'.
GotoSettled(r) ==
  /\ running
  /\ reqs[r].pc = "settle"
  /\ Len(history) < MaxHistory
  /\ history' = record(history, "goto", [url |-> reqs[r].arg])
  /\ Send(r, Reply("goto", <<>>, 200, "none", "ok", Undefined, NoHint))
  /\ UNCHANGED <<pages, activePage, pagesEver, secrets, lastIdToXPath, lastTree>>
  /\ UNCHANGED <<running, exitCode, auxVars, regVars>>

(***************************************************************************)
(* The captured console log: a ring of 1000 entries whose oldest entry is  *)
(* dropped on overflow, cleared on request.                                *)
(***************************************************************************)
ConsoleCapacity == 1000
MaxConsoleEvents == 1500

\* push_console that drops the new entry when the ring is full.
pushConsoleDropNewest(logs, entry) ==
  IF Len(logs) >= ConsoleCapacity THEN logs ELSE Append(logs, entry)

\* push_console: the entry is appended, and the oldest entry dropped when
\* more than the capacity are stored.
pushConsole(logs, entry) ==
  LET pushed == Append(logs, entry)
  IN IF Len(pushed) > ConsoleCapacity THEN Tail(pushed) ELSE pushed

\* A console event of a page arrives.
ConsoleEvent ==
  /\ running
  /\ consoleEvents < MaxConsoleEvents
  /\ consoleEvents' = consoleEvents + 1
  /\ consoleLogs' = pushConsole(consoleLogs, consoleEvents + 1)
  /\ UNCHANGED <<pages, activePage, pagesEver, secrets, history, lastIdToXPath, reqs, resp,
                 lastTree, running, exitCode, files, shuttingDown, browser, bypass>>
  /\ UNCHANGED regVars

\* POST /console/clear: clear_console.
ConsoleClear ==
  /\ running
  /\ consoleLogs' = <<>>
  /\ consoleEvents' = 0
  /\ UNCHANGED <<pages, activePage, pagesEver, secrets, history, lastIdToXPath, reqs, resp,
                 lastTree, running, exitCode, files, shuttingDown, browser, bypass>>
  /\ UNCHANGED regVars

(***************************************************************************)
(* POST /download {selector, output?}: the token is a URL or resolves to   *)
(* an element whose href, then src, is the URL; data: URLs are decoded,    *)
(* other URLs fetched in the page; the answer is {path, size, url}.        *)
(***************************************************************************)
MaxFiles == 2

DataScheme == <<"d", "a", "t", "a", ":">>
HttpScheme == <<"h", "t", "t", "p", ":", "/", "/">>
HttpsScheme == <<"h", "t", "t", "p", "s", ":", "/", "/">>

\* The token is itself a URL.
IsUrl(tok) ==
  IsPrefix(DataScheme, tok) \/ IsPrefix(HttpScheme, tok) \/ IsPrefix(HttpsScheme, tok)

\* The content of a data: URL without a media type: what follows "data:,".
decodeDataUrl(url) == SubSeq(url, Len(DataScheme) + 2, Len(url))

\* The attribute read first is src.
downloadUrlSrcFirst(href, src) == IF src # Null THEN src ELSE href

\* read href then src: the URL of the element, Null when it has neither.
downloadUrl(href, src) == IF href # Null THEN href ELSE src

\* The file is written and the answer {path, size, url} sent; the path is
\* that of the n-th file of the download directory.
DownloadSave(r, tok, url, content, branch) ==
  LET path == Len(files) + 1 IN
  /\ files' = Append(files, [path |-> path, content |-> content])
  /\ Send(r, [Reply("download", tok, 200, branch, "saved", Undefined, NoHint)
                 EXCEPT !.body = [path |-> path, size |-> Len(content), url |-> url]])

\* POST /download up to the first await.
DownloadArrive(r, tok) ==
  /\ running
  /\ reqs[r].pc = "idle"
  /\ Len(files) < MaxFiles
  /\ IF Falsy(tok)
     THEN /\ Send(r, Reply("download", tok, 400, "missing-field", "missing selector",
                           Undefined, NoHint))
          /\ UNCHANGED files
     ELSE IF IsUrl(tok) /\ IsPrefix(DataScheme, tok)
     THEN DownloadSave(r, tok, tok, decodeDataUrl(tok), "direct")
     ELSE /\ Suspend(r, IF IsUrl(tok) THEN "dl-fetch" ELSE "dl-check", "download", tok,
                     <<>>, IF IsUrl(tok) THEN tok ELSE <<>>, getActivePage)
          /\ resp' = NoResp
          /\ UNCHANGED files
  /\ UNCHANGED <<pages, activePage, pagesEver, secrets, history, lastIdToXPath, lastTree>>
  /\ UNCHANGED <<running, exitCode, consoleLogs, consoleEvents, shuttingDown, browser, bypass, regVars>>

\* The element query returns: no element, or an element whose attributes
\* href and src are read next.
DownloadChecked(r, found, href, src) ==
  /\ running
  /\ reqs[r].pc = "dl-check"
  /\ IF found
     THEN /\ Suspend(r, "dl-attrs", "download", reqs[r].token, <<href, src>>, <<>>,
                     reqs[r].page)
          /\ UNCHANGED resp
     ELSE Send(r, Reply("download", reqs[r].token, 400, "not-found", "Element not found",
                        reqs[r].token, NoHint))
  /\ UNCHANGED <<pages, activePage, pagesEver, secrets, history, lastIdToXPath, lastTree>>
  /\ UNCHANGED <<running, exitCode, auxVars, regVars>>

\* The attributes have been read: 400 when there is neither href nor src.
DownloadAttrs(r) ==
  /\ running
  /\ reqs[r].pc = "dl-attrs"
  /\ LET href == reqs[r].actual[1]
         src == reqs[r].actual[2]
         url == downloadUrl(href, src)
         branch == IF url = href THEN "href" ELSE "src"
     IN IF url = Null
        THEN /\ Send(r, Reply("download", reqs[r].token, 400, "no-url", "no href or src",
                              Undefined, NoHint))
             /\ UNCHANGED files
        ELSE IF IsPrefix(DataScheme, url)
        THEN DownloadSave(r, reqs[r].token, url, decodeDataUrl(url), branch)
        ELSE /\ Suspend(r, "dl-fetch", "download", reqs[r].token, reqs[r].actual, url,
                        reqs[r].page)
             /\ UNCHANGED <<resp, files>>
  /\ UNCHANGED <<pages, activePage, pagesEver, secrets, history, lastIdToXPath, lastTree>>
  /\ UNCHANGED <<running, exitCode, consoleLogs, consoleEvents, shuttingDown, browser, bypass, regVars>>

\* The fetch inside the page returns the content, or fails (a status that
\* is not 2xx, a network error): 500.
DownloadFetched(r, ok, content) ==
  /\ running
  /\ reqs[r].pc = "dl-fetch"
  /\ IF ok
     THEN DownloadSave(r, reqs[r].token, reqs[r].arg, content,
                       IF reqs[r].actual = <<>> THEN "direct"
                       ELSE IF reqs[r].arg = reqs[r].actual[1] THEN "href" ELSE "src")
     ELSE /\ Send(r, Reply("download", reqs[r].token, 500, "driver-error", "err.message",
                           Undefined, NoHint))
          /\ UNCHANGED files
  /\ UNCHANGED <<pages, activePage, pagesEver, secrets, history, lastIdToXPath, lastTree>>
  /\ UNCHANGED <<running, exitCode, consoleLogs, consoleEvents, shuttingDown, browser, bypass, regVars>>

(***************************************************************************)
(* Tabs: POST /tabs/switch and the page events of the browser context.     *)
(***************************************************************************)
\* index === undefined || index < 0 || index >= pages.length, for an index
\* that is missing, null (which compares as 0), a whole number val, or the
\* fraction val + 1/2.
InvalidIndex(index, len) ==
  \/ index.kind = "undefined"
  \/ index.kind = "null" /\ 0 >= len
  \/ index.kind \in {"number", "fraction"} /\ (index.val < 0 \/ index.val >= len)

\* pages[index]: undefined (NoPage) unless the index is a whole number.
PageAt(tabs, index) ==
  IF index.kind = "number" THEN tabs[index.val + 1] ELSE NoPage

\* POST /tabs/switch without its record call.
TabsSwitchNoRecord(r, index) ==
  /\ running
  /\ reqs[r].pc = "idle"
  /\ IF InvalidIndex(index, Len(pages))
     THEN /\ Send(r, [Reply("switch-tab", <<>>, 400, "bad-index", "invalid tab index",
                            Undefined, NoHint) EXCEPT !.index = index])
          /\ UNCHANGED <<activePage, history>>
     ELSE /\ activePage' = PageAt(pages, index)
          /\ UNCHANGED history
          /\ Send(r, [Reply("switch-tab", <<>>, 200, "none", "ok", Undefined, NoHint)
                        EXCEPT !.index = index])
  /\ UNCHANGED <<pages, pagesEver, secrets, lastIdToXPath, lastTree>>
  /\ UNCHANGED <<running, exitCode, auxVars, regVars>>

TabsSwitch(r, index) ==
  /\ running
  /\ reqs[r].pc = "idle"
  /\ IF InvalidIndex(index, Len(pages))
     THEN /\ Send(r, [Reply("switch-tab", <<>>, 400, "bad-index", "invalid tab index",
                            Undefined, NoHint) EXCEPT !.index = index])
          /\ UNCHANGED <<activePage, history>>
     ELSE /\ Len(history) < MaxHistory
          /\ activePage' = PageAt(pages, index)
          /\ history' = record(history, "switch-tab", [index |-> index])
          /\ Send(r, [Reply("switch-tab", <<>>, 200, "none", "ok", Undefined, NoHint)
                        EXCEPT !.index = index])
  /\ UNCHANGED <<pages, pagesEver, secrets, lastIdToXPath, lastTree>>
  /\ UNCHANGED <<running, exitCode, auxVars, regVars>>

\* context.on('page'): pages = await context.pages(); activePage = newPage
PageOpened ==
  /\ running
  /\ pagesEver < MaxPagesEver
  /\ pagesEver' = pagesEver + 1
  /\ pages' = Append(pages, pagesEver + 1)
  /\ activePage' = pagesEver + 1
  /\ UNCHANGED <<secrets, history, lastIdToXPath, reqs, resp, lastTree>>
  /\ UNCHANGED <<running, exitCode, auxVars, regVars>>

\* context.on('pageclose') making the first remaining tab the active one.
PageClosedFirst(closedPage) ==
  /\ running
  /\ \E i \in 1..Len(pages) : pages[i] = closedPage
  /\ LET rest == SelectSeq(pages, LAMBDA page : page # closedPage) IN
     /\ pages' = rest
     /\ activePage' = IF activePage = closedPage
                      THEN (IF Len(rest) > 0 THEN rest[1] ELSE NoPage)
                      ELSE activePage
  /\ UNCHANGED <<pagesEver, secrets, history, lastIdToXPath, reqs, resp, lastTree>>
  /\ UNCHANGED <<running, exitCode, auxVars, regVars>>

\* context.on('pageclose')
PageClosed(closedPage) ==
  /\ running
  /\ \E i \in 1..Len(pages) : pages[i] = closedPage
  /\ LET rest == SelectSeq(pages, LAMBDA page : page # closedPage) IN
     /\ pages' = rest
     /\ activePage' = IF activePage = closedPage
                      THEN (IF Len(rest) > 0 THEN rest[Len(rest)] ELSE NoPage)
                      ELSE activePage
  /\ UNCHANGED <<pagesEver, secrets, history, lastIdToXPath, reqs, resp, lastTree>>
  /\ UNCHANGED <<running, exitCode, auxVars, regVars>>

\* context.on('framenavigated'): activePage.mainFrame() of an active page
\* that is null or undefined throws inside the async listener; the rejection
\* is unhandled, and where Node raises it as an uncaught exception (fatal)
\* the handler of 'uncaughtException' exits the process.
FrameNavigated(page, fatal) ==
  /\ running
  /\ \E i \in 1..Len(pages) : pages[i] = page
  /\ IF activePage = NoPage /\ fatal
     THEN /\ running' = FALSE
          /\ exitCode' = 1
     ELSE UNCHANGED <<running, exitCode>>
  /\ UNCHANGED <<pages, activePage, pagesEver, secrets, history, lastIdToXPath, reqs, resp,
                 lastTree>>
  /\ UNCHANGED <<auxVars, regVars>>

\* GET /health
Health(r) ==
  /\ running
  /\ reqs[r].pc = "idle"
  /\ Send(r, Reply("health", <<>>, 200, "none", "ok", Undefined, NoHint))
  /\ UNCHANGED <<pages, activePage, pagesEver, secrets, history, lastIdToXPath, lastTree>>
  /\ UNCHANGED <<running, exitCode, auxVars, regVars>>

\* GET /tabs: pages.map(...) starts a title request for every tab of the
\* list as it is now.
TabsArrive(r) ==
  /\ running
  /\ reqs[r].pc = "idle"
  /\ Suspend(r, "act", "tabs", <<>>, pages, <<>>, NoPage)
  /\ resp' = NoResp
  /\ UNCHANGED <<pages, activePage, pagesEver, secrets, history, lastIdToXPath, lastTree>>
  /\ UNCHANGED <<running, exitCode, auxVars, regVars>>

\* Promise.all settles: the tabs of the list taken at arrival, with index
\* and isActive; a title request that fails gives 500. An empty list has no
\* title request that could fail.
TabsDone(r, ok) ==
  /\ running
  /\ reqs[r].pc = "act"
  /\ reqs[r].ep = "tabs"
  /\ LET tabs == reqs[r].actual IN
     IF ok \/ tabs = <<>>
     THEN Send(r, [Reply("tabs", <<>>, 200, "none", "tabs", Undefined, NoHint)
                     EXCEPT !.body = [i \in 1..Len(tabs) |->
                                        [index |-> i - 1, page |-> tabs[i],
                                         isActive |-> tabs[i] = activePage]]])
     ELSE Send(r, Reply("tabs", <<>>, 500, "driver-error", "err.message", Undefined, NoHint))
  /\ UNCHANGED <<pages, activePage, pagesEver, secrets, history, lastIdToXPath, lastTree>>
  /\ UNCHANGED <<running, exitCode, auxVars, regVars>>

(***************************************************************************)
(* POST /shot {url, output_width, output_format, ...}: a screenshot of url *)
(* in a page of its own. The history entry is reduced to its url.          *)
(***************************************************************************)
\* res.send without the end of the handler: the finally block is still to
\* run, at position pc.
Respond(r, pc, reply) ==
  /\ reqs' = [reqs EXCEPT ![r].pc = pc, ![r].sent = reply.status]
  /\ resp' = reply

ShotError(cause) ==
  Reply("shot", <<>>, 500, cause, "Error capturing screenshot", Undefined, NoHint)

\* The request arrives. The record of the request keeps the active tab
\* (in token) and the tab list (in actual) of this moment; the handler does
\* not read them.
ShotArrive(r, url) ==
  /\ running
  /\ reqs[r].pc = "idle"
  /\ IF Falsy(url)
     THEN Send(r, Reply("shot", <<>>, 400, "missing-field", "missing url parameter",
                        Undefined, NoHint))
     ELSE /\ Suspend(r, "new", "shot", <<activePage>>, pages, url, NoPage)
          /\ resp' = NoResp
  /\ UNCHANGED <<pages, activePage, pagesEver, secrets, history, lastIdToXPath, lastTree>>
  /\ UNCHANGED <<running, exitCode, auxVars, regVars>>

\* context.newPage() returns: the page listener has put the new page into
\* the tab list and made it the active tab. If newPage throws there is no
\* page to close.
ShotPageCreated(r, ok) ==
  /\ running
  /\ reqs[r].pc = "new"
  /\ IF ok
     THEN /\ pagesEver < MaxPagesEver
          /\ pagesEver' = pagesEver + 1
          /\ pages' = Append(pages, pagesEver + 1)
          /\ activePage' = pagesEver + 1
          /\ reqs' = [reqs EXCEPT ![r].pc = "capture", ![r].page = pagesEver + 1]
          /\ UNCHANGED resp
     ELSE /\ Send(r, ShotError("driver-error"))
          /\ UNCHANGED <<pages, activePage, pagesEver>>
  /\ UNCHANGED <<secrets, history, lastIdToXPath, lastTree>>
  /\ UNCHANGED <<running, exitCode, auxVars, regVars>>

\* The page handed to dismissModals: dismissModals(getActivePage())
dismissTarget == getActivePage

\* page.goto, the waits, dismissModals(getActivePage()) and page.screenshot
\* have returned (or one of them has thrown). After the screenshot the
\* action is recorded; then the output is prepared: transform "none" sends
\* the PNG at once, "throw" is sharp rejecting output_width or
\* output_quality, "encode" awaits processor.toBuffer().
ShotCaptured(r, ok, transform) ==
  /\ running
  /\ reqs[r].pc = "capture"
  /\ transform \in {"none", "throw", "encode"}
  /\ IF ~ok \/ dismissTarget = NoPage
     THEN /\ Respond(r, "close", ShotError("driver-error"))
          /\ UNCHANGED history
     ELSE /\ Len(history) < MaxHistory
          /\ history' = record(history, "api-shot", [url |-> reqs[r].arg])
          /\ CASE transform = "none" ->
                    /\ reqs' = [reqs EXCEPT ![r].pc = "close", ![r].sent = 200,
                                            ![r].recorded = 1]
                    /\ resp' = Reply("shot", <<>>, 200, "none", "image", Undefined, NoHint)
               [] transform = "throw" ->
                    /\ reqs' = [reqs EXCEPT ![r].pc = "close", ![r].sent = 500,
                                            ![r].recorded = 1]
                    /\ resp' = ShotError("output-error")
               [] OTHER ->
                    /\ reqs' = [reqs EXCEPT ![r].pc = "encode", ![r].recorded = 1]
                    /\ UNCHANGED resp
  /\ UNCHANGED <<pages, activePage, pagesEver, secrets, lastIdToXPath, lastTree>>
  /\ UNCHANGED <<running, exitCode, auxVars, regVars>>

\* processor.toBuffer() settles.
ShotEncoded(r, ok) ==
  /\ running
  /\ reqs[r].pc = "encode"
  /\ IF ok
     THEN Respond(r, "close", Reply("shot", <<>>, 200, "none", "image", Undefined, NoHint))
     ELSE Respond(r, "close", ShotError("output-error"))
  /\ UNCHANGED <<pages, activePage, pagesEver, secrets, history, lastIdToXPath, lastTree>>
  /\ UNCHANGED <<running, exitCode, auxVars, regVars>>

\* A finally block that does not close the page.
ShotClosedNoClose(r) ==
  /\ running
  /\ reqs[r].pc = "close"
  /\ reqs' = [reqs EXCEPT ![r] = Idle]
  /\ UNCHANGED <<pages, activePage, pagesEver, secrets, history, lastIdToXPath, resp, lastTree>>
  /\ UNCHANGED <<running, exitCode, auxVars, regVars>>

\* finally { await page.close() }: the pageclose listener takes the page out
\* of the tab list, and the last remaining tab becomes active if the page
\* was the active one.
ShotClosed(r) ==
  /\ running
  /\ reqs[r].pc = "close"
  /\ LET closedPage == reqs[r].page
         rest == SelectSeq(pages, LAMBDA page : page # closedPage) IN
     /\ pages' = rest
     /\ activePage' = IF activePage = closedPage
                      THEN (IF Len(rest) > 0 THEN rest[Len(rest)] ELSE NoPage)
                      ELSE activePage
  /\ reqs' = [reqs EXCEPT ![r] = Idle]
  /\ UNCHANGED <<pagesEver, secrets, history, lastIdToXPath, resp, lastTree>>
  /\ UNCHANGED <<running, exitCode, auxVars, regVars>>

(***************************************************************************)
(* GET /html, GET /history, POST /history/clear                            *)
(***************************************************************************)
\* GET /html with page.content() called outside the try block: without an
\* active page the handler throws, the rejection is unhandled and the process
\* exits.
HtmlArriveNoCatch(r) ==
  /\ running
  /\ reqs[r].pc = "idle"
  /\ IF getActivePage = NoPage
     THEN /\ running' = FALSE
          /\ exitCode' = 1
          /\ UNCHANGED <<reqs, resp>>
     ELSE /\ Suspend(r, "act", "html", <<>>, <<>>, <<>>, getActivePage)
          /\ resp' = NoResp
          /\ UNCHANGED <<running, exitCode>>
  /\ UNCHANGED <<pages, activePage, pagesEver, secrets, history, lastIdToXPath, lastTree>>
  /\ UNCHANGED <<auxVars, regVars>>

HtmlArrive(r) ==
  /\ running
  /\ reqs[r].pc = "idle"
  /\ IF getActivePage = NoPage
     THEN /\ Send(r, Reply("html", <<>>, 500, "driver-error", "err.message", Undefined, NoHint))
     ELSE /\ Suspend(r, "act", "html", <<>>, <<>>, <<>>, getActivePage)
          /\ resp' = NoResp
  /\ UNCHANGED <<pages, activePage, pagesEver, secrets, history, lastIdToXPath, lastTree>>
  /\ UNCHANGED <<running, exitCode, auxVars, regVars>>

\* page.content() returns the page source: every secret is split out of it.
HtmlDone(r, ok, source) ==
  /\ running
  /\ reqs[r].pc = "act"
  /\ reqs[r].ep = "html"
  /\ IF ok
     THEN Send(r, [Reply("html", <<>>, 200, "none", "html", Undefined, NoHint)
                     EXCEPT !.src = source, !.body = MaskSecrets(source, secrets)])
     ELSE Send(r, Reply("html", <<>>, 500, "driver-error", "err.message", Undefined, NoHint))
  /\ UNCHANGED <<pages, activePage, pagesEver, secrets, history, lastIdToXPath, lastTree>>
  /\ UNCHANGED <<running, exitCode, auxVars, regVars>>

HistoryGet(r) ==
  /\ running
  /\ reqs[r].pc = "idle"
  /\ Send(r, [Reply("history", <<>>, 200, "none", "history", Undefined, NoHint)
                EXCEPT !.hist = history])
  /\ UNCHANGED <<pages, activePage, pagesEver, secrets, history, lastIdToXPath, lastTree>>
  /\ UNCHANGED <<running, exitCode, auxVars, regVars>>

HistoryClear(r) ==
  /\ running
  /\ reqs[r].pc = "idle"
  /\ history' = <<>>
  /\ Send(r, Reply("history/clear", <<>>, 200, "none", "ok", Undefined, NoHint))
  /\ UNCHANGED <<pages, activePage, pagesEver, secrets, lastIdToXPath, lastTree>>
  /\ UNCHANGED <<running, exitCode, auxVars, regVars>>

(***************************************************************************)
(* GET /tree and POST /xpath-for-id                                        *)
(***************************************************************************)
TreeArrive(r) ==
  /\ running
  /\ reqs[r].pc = "idle"
  /\ IF getActivePage = NoPage
     THEN /\ Send(r, Reply("tree", <<>>, 500, "driver-error", "err.message", Undefined, NoHint))
     ELSE /\ Suspend(r, "act", "tree", <<>>, <<>>, <<>>, getActivePage)
          /\ resp' = NoResp
  /\ UNCHANGED <<pages, activePage, pagesEver, secrets, history, lastIdToXPath, lastTree>>
  /\ UNCHANGED <<running, exitCode, auxVars, regVars>>

\* GET /tree emptying the stored map before its CDP calls: a request that
\* fails leaves no map behind.
TreeDoneDropOnError(r, ok, doc) ==
  /\ running
  /\ reqs[r].pc = "act"
  /\ reqs[r].ep = "tree"
  /\ IF ok /\ Len(doc.ax) > 0
     THEN /\ lastIdToXPath' = TreeResult(doc).idToXPath
          /\ lastTree' = [doc |-> doc, domXPath |-> DomMaps(doc).idToXPath,
                           nodes |-> TreeResult(doc).nodes]
          /\ Send(r, Reply("tree", <<>>, 200, "none", "tree", Undefined, NoHint))
     ELSE /\ lastIdToXPath' = <<>>
          /\ Send(r, Reply("tree", <<>>, 500, "driver-error", "err.message", Undefined, NoHint))
          /\ UNCHANGED lastTree
  /\ UNCHANGED <<pages, activePage, pagesEver, secrets, history>>
  /\ UNCHANGED <<running, exitCode, auxVars, regVars>>

\* GET /tree filling the stored map in place instead of a map of its own:
\* the entries of the previous tree stay.
TreeDoneInPlace(r, ok, doc) ==
  /\ running
  /\ reqs[r].pc = "act"
  /\ reqs[r].ep = "tree"
  /\ IF ok /\ Len(doc.ax) > 0
     THEN /\ lastIdToXPath' =
               [k \in (DOMAIN lastIdToXPath) \cup (DOMAIN TreeResult(doc).idToXPath) |->
                  IF k \in DOMAIN TreeResult(doc).idToXPath
                  THEN TreeResult(doc).idToXPath[k] ELSE lastIdToXPath[k]]
          /\ lastTree' = [doc |-> doc, domXPath |-> DomMaps(doc).idToXPath,
                           nodes |-> TreeResult(doc).nodes]
          /\ Send(r, Reply("tree", <<>>, 200, "none", "tree", Undefined, NoHint))
     ELSE /\ Send(r, Reply("tree", <<>>, 500, "driver-error", "err.message", Undefined, NoHint))
          /\ UNCHANGED <<lastIdToXPath, lastTree>>
  /\ UNCHANGED <<pages, activePage, pagesEver, secrets, history>>
  /\ UNCHANGED <<running, exitCode, auxVars, regVars>>

\* The CDP calls return doc (or one of them throws): both trees are walked
\* and the map is stored; lastTree keeps the CDP answer, the map as
\* traverseDomAndMap left it, and the nodes of the tree sent. An empty accessibility list has no root, and
\* rootAx.nodeId throws.
TreeDone(r, ok, doc) ==
  /\ running
  /\ reqs[r].pc = "act"
  /\ reqs[r].ep = "tree"
  /\ IF ok /\ Len(doc.ax) > 0
     THEN /\ lastIdToXPath' = TreeResult(doc).idToXPath
          /\ lastTree' = [doc |-> doc, domXPath |-> DomMaps(doc).idToXPath,
                           nodes |-> TreeResult(doc).nodes]
          /\ Send(r, Reply("tree", <<>>, 200, "none", "tree", Undefined, NoHint))
     ELSE /\ Send(r, Reply("tree", <<>>, 500, "driver-error", "err.message", Undefined, NoHint))
          /\ UNCHANGED <<lastIdToXPath, lastTree>>
  /\ UNCHANGED <<pages, activePage, pagesEver, secrets, history>>
  /\ UNCHANGED <<running, exitCode, auxVars, regVars>>

XPathForId(r, id) ==
  /\ running
  /\ reqs[r].pc = "idle"
  /\ IF id = Undefined
     THEN Send(r, Reply("xpath-for-id", id, 400, "missing-field", "missing id", Undefined, NoHint))
     ELSE IF Falsy(Lookup(lastIdToXPath, id))
     THEN Send(r, Reply("xpath-for-id", id, 400, "unknown-id", "XPath not found for ID",
                        Undefined, NoHint))
     ELSE Send(r, [Reply("xpath-for-id", id, 200, "none", "xpath", Undefined, NoHint)
                     EXCEPT !.body = Lookup(lastIdToXPath, id)])
  /\ UNCHANGED <<pages, activePage, pagesEver, secrets, history, lastIdToXPath, lastTree>>
  /\ UNCHANGED <<running, exitCode, auxVars, regVars>>

(***************************************************************************)
(* The named-instance registry and the start command (src/bin/br.js).      *)
(***************************************************************************)
\* let port = 3030 in allocatePort, and the port the default instance prefers
BasePort == 3030
\* const port = 3030 in the daemon
DaemonPort == 3030

NumPorts == 4
MaxPid == 4

Ports == BasePort..(BasePort + NumPorts - 1)
Clis == {"c1"}

Remove(data, name) == [n \in (DOMAIN data) \ {name} |-> data[n]]

\* The pruning loop of readRegistry: process.kill(entry.pid, 0) throws for
\* a pid that is not alive, and the entry is deleted.
RECURSIVE pruneDead(_, _, _)
pruneDead(st, names, live) ==
  IF names = {} THEN st
  ELSE LET name == CHOOSE n \in names : TRUE
       IN pruneDead(IF st.data[name].pid \in live THEN st
                    ELSE [data |-> Remove(st.data, name), changed |-> TRUE],
                    names \ {name}, live)

\* function writeRegistry: the new content of the file
writeRegistry(data) == data

\* readRegistry without its writeRegistry call: the file keeps the dead
\* entries.
readRegistryNoWrite(file, live) ==
  LET st == pruneDead([data |-> file, changed |-> FALSE], DOMAIN file, live)
  IN [data |-> st.data, file |-> file]

\* function readRegistry: the map returned and the content of the file
\* afterwards.
readRegistry(file, live) ==
  LET st == pruneDead([data |-> file, changed |-> FALSE], DOMAIN file, live)
  IN [data |-> st.data,
      file |-> IF st.changed THEN writeRegistry(st.data) ELSE file]

\* readRegistry without its outer catch: a file that cannot be read or
\* parsed makes it throw.
readRegistryNoCatch(kind, file, live) ==
  LET rr == readRegistry(file, live)
  IN [data |-> rr.data, file |-> rr.file, threw |-> kind # "json"]

\* function readRegistry on a file of any kind: readFileSync throws on a
\* missing or unreadable file and JSON.parse on a malformed one; the catch
\* returns {} and writes nothing. (A file that is not "json" has no entries,
\* so that readRegistry above gives the same map and file for it.)
readRegistryFile(kind, file, live) ==
  IF kind # "json"
  THEN [data |-> <<>>, file |-> file, threw |-> FALSE]
  ELSE LET rr == readRegistry(file, live)
       IN [data |-> rr.data, file |-> rr.file, threw |-> FALSE]

\* registerInstance that writes the new entry alone.
registerInstanceAlone(file, live, name, port, pid) ==
  writeRegistry(MapSet(<<>>, name, [port |-> port, pid |-> pid]))

\* function registerInstance: the content of the file afterwards
registerInstance(file, live, name, port, pid) ==
  writeRegistry(MapSet(readRegistry(file, live).data, name, [port |-> port, pid |-> pid]))

\* function unregisterInstance: the content of the file afterwards
unregisterInstance(file, live, name) ==
  writeRegistry(Remove(readRegistry(file, live).data, name))

\* The ports on which a bind fails.
BoundPorts ==
  foreign \cup {daemons[p].listen : p \in {q \in alive \cap DOMAIN daemons : daemons[q].listen # 0}}

\* function isPortFree
isPortFree(port, boundPorts) == port \notin boundPorts

\* The loop of allocatePort without the bind probe.
RECURSIVE allocateFromNoProbe(_, _, _)
allocateFromNoProbe(port, usedPorts, boundPorts) ==
  IF port > BasePort + NumPorts THEN port
  ELSE IF port \in usedPorts
       THEN allocateFromNoProbe(port + 1, usedPorts, boundPorts)
       ELSE port

\* The loop of allocatePort from port on.
RECURSIVE allocateFrom(_, _, _)
allocateFrom(port, usedPorts, boundPorts) ==
  IF port > BasePort + NumPorts THEN port
  ELSE IF port \in usedPorts \/ ~isPortFree(port, boundPorts)
       THEN allocateFrom(port + 1, usedPorts, boundPorts)
       ELSE port

\* function allocatePort
allocatePort(file, live, boundPorts) ==
  LET data == readRegistry(file, live).data
      usedPorts == {data[n].port : n \in DOMAIN data}
  IN allocateFrom(BasePort, usedPorts, boundPorts)

\* send('/health', ..., port) is answered 'ok' by a daemon listening there.
HealthOk(port) ==
  \E p \in alive \cap DOMAIN daemons : daemons[p].listen = port

\* What a request of send comes back with: kind "noInstance" when
\* getInstancePort threw before any request, "refused" and "connError" for
\* the 'error' event of the request, "http" for a response with its status;
\* json tells whether JSON.parse gave an object, null, or threw (the body is
\* then kept as text); result and pass are the fields of the object.
NoAnswer ==
  [kind |-> "none", status |-> 0, json |-> "text", result |-> "undefined",
   pass |-> "undefined"]

\* A br command in flight: cmd and answer are those of the check commands.
CliIdle ==
  [pc |-> "idle", name |-> "", port |-> 0, pid |-> 0, exit |-> -1, data |-> <<>>,
   cmd |-> "none", answer |-> NoAnswer]

\* br list: readRegistry, printed. An exception of the action function
\* would be swallowed by the try block around program.parse(), with nothing
\* printed.
List(c) ==
  /\ cli[c].pc = "idle"
  /\ LET rr == readRegistryFile(regKind, regFile, alive) IN
     /\ regFile' = rr.file
     /\ cli' = [cli EXCEPT ![c] =
                  [CliIdle EXCEPT !.exit = 0, !.cmd = "list",
                                  !.data = IF rr.threw THEN Undefined ELSE rr.data]]
  /\ UNCHANGED <<alive, daemons, nextPid, foreign>>
  /\ UNCHANGED <<daemonVars, regKind>>

\* br start, up to the health request to a registered instance.
StartBegin(c, name) ==
  /\ cli[c].pc = "idle"
  /\ LET rr == readRegistry(regFile, alive) IN
     /\ regFile' = rr.file
     /\ cli' = [cli EXCEPT ![c] =
                  IF name \in DOMAIN rr.data
                  THEN [CliIdle EXCEPT !.pc = "health", !.name = name,
                                       !.port = rr.data[name].port, !.pid = rr.data[name].pid]
                  ELSE [CliIdle EXCEPT !.pc = "select", !.name = name]]
  /\ UNCHANGED <<alive, daemons, nextPid, foreign>>
  /\ UNCHANGED <<daemonVars, regKind>>

\* process.kill that delivers nothing.
killNoSignal(ds, live, pid) == ds

\* process.kill(pid): the signal is delivered to a live process.
kill(ds, live, pid) ==
  IF pid \in live \cap DOMAIN ds THEN [ds EXCEPT ![pid].signalled = TRUE] ELSE ds

\* The health request returns. 'ok' ends the command. An error makes the
\* instance stale: its pid is signalled and its entry removed. Any other
\* answer (of a foreign server on that port) falls through to the port
\* selection.
StartHealth(c, answer) ==
  /\ cli[c].pc = "health"
  /\ answer \in {"ok", "error", "other"}
  /\ answer = "ok" <=> HealthOk(cli[c].port)
  /\ answer = "other" => cli[c].port \in foreign
  /\ CASE answer = "ok" ->
            /\ cli' = [cli EXCEPT ![c] = [CliIdle EXCEPT !.exit = 0]]
            /\ UNCHANGED <<regFile, regKind, daemons>>
       [] answer = "error" ->
            /\ daemons' = kill(daemons, alive, cli[c].pid)
            /\ regFile' = unregisterInstance(regFile, alive, cli[c].name)
            /\ regKind' = "json"
            /\ cli' = [cli EXCEPT ![c].pc = "select", ![c].port = 0, ![c].pid = 0]
       [] OTHER ->
            /\ cli' = [cli EXCEPT ![c].pc = "select", ![c].port = 0, ![c].pid = 0]
            /\ UNCHANGED <<regFile, regKind, daemons>>
  /\ UNCHANGED <<alive, nextPid, foreign>>
  /\ UNCHANGED daemonVars

\* The port selection of start: the default instance takes 3030 when it is
\* not registered and 3030 can be bound; otherwise allocatePort.
StartSelect(c) ==
  /\ cli[c].pc = "select"
  /\ LET rr == readRegistry(regFile, alive)
         port == IF /\ cli[c].name = "default"
                    /\ "default" \notin DOMAIN rr.data
                    /\ isPortFree(BasePort, BoundPorts)
                 THEN BasePort
                 ELSE allocatePort(regFile, alive, BoundPorts)
     IN /\ port \in Ports
        /\ regFile' = rr.file
        /\ cli' = [cli EXCEPT ![c].pc = "spawn", ![c].port = port]
  /\ UNCHANGED <<alive, daemons, nextPid, foreign>>
  /\ UNCHANGED <<daemonVars, regKind>>

\* spawn(daemon.js, {env: {BR_PORT: port}}) and registerInstance.
StartSpawn(c) ==
  /\ cli[c].pc = "spawn"
  /\ nextPid <= MaxPid
  /\ nextPid' = nextPid + 1
  /\ alive' = alive \cup {nextPid}
  /\ daemons' = MapSet(daemons, nextPid,
                       [envPort |-> cli[c].port, listen |-> 0, signalled |-> FALSE,
                        name |-> cli[c].name])
  /\ regFile' = registerInstance(regFile, alive', cli[c].name, cli[c].port, nextPid)
  /\ regKind' = "json"
  /\ cli' = [cli EXCEPT ![c].pc = "poll", ![c].pid = nextPid]
  /\ UNCHANGED foreign
  /\ UNCHANGED daemonVars

\* StartSpawn seen from a second br process: spawn, and registerInstance up
\* to the end of its readRegistry; data keeps the registry read.
StartSpawnRead(c) ==
  /\ cli[c].pc = "spawn"
  /\ nextPid <= MaxPid
  /\ nextPid' = nextPid + 1
  /\ alive' = alive \cup {nextPid}
  /\ daemons' = MapSet(daemons, nextPid,
                       [envPort |-> cli[c].port, listen |-> 0, signalled |-> FALSE,
                        name |-> cli[c].name])
  /\ LET rr == readRegistry(regFile, alive') IN
       /\ regFile' = rr.file
       /\ cli' = [cli EXCEPT ![c].pc = "register", ![c].pid = nextPid, ![c].data = rr.data]
  /\ UNCHANGED <<foreign, regKind>>
  /\ UNCHANGED daemonVars

\* registerInstance from data[name] = { port, pid } on: writeRegistry(data).
StartRegisterWrite(c) ==
  /\ cli[c].pc = "register"
  /\ regFile' = writeRegistry(MapSet(cli[c].data, cli[c].name,
                                     [port |-> cli[c].port, pid |-> cli[c].pid]))
  /\ regKind' = "json"
  /\ cli' = [cli EXCEPT ![c].pc = "poll", ![c].data = <<>>]
  /\ UNCHANGED <<alive, daemons, nextPid, foreign>>
  /\ UNCHANGED daemonVars

\* checkHealth: after 5 s the entry is removed and start exits 2; before, a
\* health request that any server on the port answers ends start with 0, one
\* that fails is retried.
StartPoll(c, timedOut) ==
  /\ cli[c].pc = "poll"
  /\ IF timedOut
     THEN /\ regFile' = unregisterInstance(regFile, alive, cli[c].name)
          /\ regKind' = "json"
          /\ cli' = [cli EXCEPT ![c] = [CliIdle EXCEPT !.exit = 2]]
     ELSE /\ cli[c].port \in BoundPorts
          /\ cli' = [cli EXCEPT ![c] = [CliIdle EXCEPT !.exit = 0]]
          /\ UNCHANGED <<regFile, regKind>>
  /\ UNCHANGED <<alive, daemons, nextPid, foreign>>
  /\ UNCHANGED daemonVars

\* br stop, up to the middle of the writeFileSync call of
\* unregisterInstance: getInstance(name); for a registered instance
\* process.kill(pid) and unregisterInstance, whose writeFileSync has opened
\* instances.json, which truncates it, and has not yet written the new
\* content. For a name that is not registered stop prints and ends.
StopBegin(c, name) ==
  /\ cli[c].pc = "idle"
  /\ LET rr == readRegistry(regFile, alive) IN
     IF name \in DOMAIN rr.data
     THEN /\ daemons' = kill(daemons, alive, rr.data[name].pid)
          /\ regFile' = <<>>
          /\ regKind' = "malformed"
          /\ cli' = [cli EXCEPT ![c] =
                       [CliIdle EXCEPT !.pc = "write", !.cmd = "stop", !.name = name,
                                       !.pid = rr.data[name].pid,
                                       !.data = unregisterInstance(regFile, alive, name)]]
     ELSE /\ regFile' = rr.file
          /\ cli' = [cli EXCEPT ![c] = [CliIdle EXCEPT !.cmd = "stop", !.name = name, !.exit = 0]]
          /\ UNCHANGED <<daemons, regKind>>
  /\ UNCHANGED <<alive, nextPid, foreign>>
  /\ UNCHANGED daemonVars

\* writeFileSync writes the content and returns; stop prints and ends.
StopWritten(c) ==
  /\ cli[c].pc = "write"
  /\ regFile' = cli[c].data
  /\ regKind' = "json"
  /\ cli' = [cli EXCEPT ![c] =
               [CliIdle EXCEPT !.cmd = "stop", !.name = cli[c].name, !.pid = cli[c].pid,
                               !.exit = 0]]
  /\ UNCHANGED <<alive, daemons, nextPid, foreign>>
  /\ UNCHANGED daemonVars

\* The loop of stop --all over the names of the registry read at its start:
\* process.kill(registry[name].pid) and unregisterInstance(name).
RECURSIVE stopEach(_, _, _, _)
stopEach(st, registry, names, live) ==
  IF names = {} THEN st
  ELSE LET name == CHOOSE n \in names : TRUE
       IN stopEach([file |-> unregisterInstance(st.file, live, name),
                    daemons |-> kill(st.daemons, live, registry[name].pid)],
                   registry, names \ {name}, live)

\* br stop --all; data keeps the registry read at the start.
StopAll(c) ==
  /\ cli[c].pc = "idle"
  /\ regKind = "json"
  /\ LET rr == readRegistry(regFile, alive)
         st == stopEach([file |-> rr.file, daemons |-> daemons], rr.data,
                        DOMAIN rr.data, alive)
     IN /\ regFile' = st.file
        /\ daemons' = st.daemons
        /\ cli' = [cli EXCEPT ![c] =
                     [CliIdle EXCEPT !.cmd = "stop-all", !.data = rr.data, !.exit = 0]]
  /\ UNCHANGED <<alive, nextPid, foreign, regKind>>
  /\ UNCHANGED daemonVars

\* The daemon reaches app.listen(port): a bind failure is an uncaught
\* exception, and the process exits.
DaemonListen(pid) ==
  /\ pid \in alive \cap DOMAIN daemons
  /\ daemons[pid].listen = 0
  /\ IF isPortFree(DaemonPort, BoundPorts)
     THEN /\ daemons' = [daemons EXCEPT ![pid].listen = DaemonPort]
          /\ UNCHANGED alive
     ELSE /\ alive' = alive \ {pid}
          /\ UNCHANGED daemons
  /\ UNCHANGED <<regFile, nextPid, foreign, cli>>
  /\ UNCHANGED <<daemonVars, regKind>>

\* A daemon exits (its browser went away, or it was signalled): its port is
\* released.
DaemonExit(pid) ==
  /\ pid \in alive \cap DOMAIN daemons
  /\ alive' = alive \ {pid}
  /\ daemons' = [daemons EXCEPT ![pid].listen = 0]
  /\ UNCHANGED <<regFile, nextPid, foreign, cli>>
  /\ UNCHANGED <<daemonVars, regKind>>

(***************************************************************************)
(* The check commands exists, visible and assert (src/bin/br.js).          *)
(***************************************************************************)
EXIT_CHECK_FAILED == 1
EXIT_ERROR == 2

\* function send: the promise is rejected on a connection error and on a
\* status of 400 or more.
sendRejects(answer) ==
  \/ answer.kind \in {"refused", "connError"}
  \/ answer.kind = "http" /\ answer.status >= 400

\* The field of the response a check command reads.
CheckField(cmd, answer) ==
  IF answer.json # "object" THEN "undefined"
  ELSE IF cmd = "assert" THEN answer.pass ELSE answer.result

\* The action function of exists, visible and assert: it throws when
\* sendToInstance throws or rejects and when the response is null; it calls
\* process.exit(EXIT_CHECK_FAILED) unless the field is true, and returns
\* otherwise (the process then ends with code 0).
checkCommand(cmd, answer) ==
  IF answer.kind = "noInstance" \/ sendRejects(answer) \/ answer.json = "null"
  THEN [threw |-> TRUE, code |-> 0]
  ELSE [threw |-> FALSE,
        code |-> IF CheckField(cmd, answer) = "true" THEN 0 ELSE EXIT_CHECK_FAILED]

\* asyncAction with a catch block that reports a failed check.
asyncActionCheckFailed(outcome) ==
  IF outcome.threw THEN EXIT_CHECK_FAILED ELSE outcome.code

\* function asyncAction: the exit code of the command
asyncAction(outcome) ==
  IF outcome.threw THEN EXIT_ERROR ELSE outcome.code

\* br exists | visible | assert, up to the request: getInstancePort throws
\* DaemonNotRunningError when the registry has no live entry of the name.
CheckBegin(c, cmd, name) ==
  /\ cli[c].pc = "idle"
  /\ LET rr == readRegistry(regFile, alive)
         noInstance == [NoAnswer EXCEPT !.kind = "noInstance"]
     IN /\ regFile' = rr.file
        /\ cli' = [cli EXCEPT ![c] =
                     IF name \in DOMAIN rr.data
                     THEN [CliIdle EXCEPT !.pc = "check", !.name = name, !.cmd = cmd,
                                          !.port = rr.data[name].port]
                     ELSE [CliIdle EXCEPT !.cmd = cmd, !.answer = noInstance,
                             !.exit = asyncAction(checkCommand(cmd, noInstance))]]
  /\ UNCHANGED <<alive, daemons, nextPid, foreign>>
  /\ UNCHANGED <<daemonVars, regKind>>

\* The request of a check command comes back: the connection is refused
\* exactly when nothing listens on the port.
CheckAnswer(c, answer) ==
  /\ cli[c].pc = "check"
  /\ answer.kind = "refused" <=> cli[c].port \notin BoundPorts
  /\ cli' = [cli EXCEPT ![c] =
               [CliIdle EXCEPT !.cmd = cli[c].cmd, !.answer = answer,
                  !.exit = asyncAction(checkCommand(cli[c].cmd, answer))]]
  /\ UNCHANGED <<regFile, alive, daemons, nextPid, foreign>>
  /\ UNCHANGED <<daemonVars, regKind>>

(***************************************************************************)
(* The commands that send one request and print (src/bin/br.js).           *)
(***************************************************************************)
\* How the action function of a command is wrapped: in asyncAction, in a
\* try block whose catch calls handleDaemonError (goto), or not at all.
Wrapper(cmd) ==
  IF cmd = "goto" THEN "handleDaemonError"
  ELSE IF cmd \in {"screenshot", "view-html", "history", "clear-history"} THEN "none"
  ELSE "asyncAction"

\* program.parse() does not wait for the promise of an action function and
\* no 'unhandledRejection' handler is installed: a rejected promise ends the
\* process with code 1, or, in Node before version 15, leaves a warning and
\* the code 0.
UnhandledRejectionExit == {0, 1}

\* function handleDaemonError: exit 2 for DaemonNotRunningError (thrown by
\* getInstancePort, and made by send of ECONNREFUSED); anything else is
\* thrown again.
handleDaemonError(answer, rejection) ==
  IF answer.kind \in {"noInstance", "refused"} THEN EXIT_ERROR ELSE rejection

\* The action function of a command that sends one request: it throws when
\* sendToInstance throws or rejects, and eval when it destructures null.
plainCommand(cmd, answer) ==
  [threw |-> \/ answer.kind = "noInstance"
             \/ sendRejects(answer)
             \/ cmd = "eval" /\ answer.json = "null",
   code |-> 0]

\* The exit code of the command, rejection being the code an unhandled
\* rejection ends the process with.
commandExit(cmd, answer, rejection) ==
  LET outcome == plainCommand(cmd, answer) IN
  CASE Wrapper(cmd) = "asyncAction" -> asyncAction(outcome)
    [] Wrapper(cmd) = "handleDaemonError" ->
         IF outcome.threw THEN handleDaemonError(answer, rejection) ELSE outcome.code
    [] OTHER -> IF outcome.threw THEN rejection ELSE outcome.code

\* A command up to its request: getInstancePort throws
\* DaemonNotRunningError when the registry has no live entry of the name.
CommandBegin(c, cmd, name, rejection) ==
  /\ cli[c].pc = "idle"
  /\ LET rr == readRegistry(regFile, alive)
         noInstance == [NoAnswer EXCEPT !.kind = "noInstance"]
     IN /\ regFile' = rr.file
        /\ cli' = [cli EXCEPT ![c] =
                     IF name \in DOMAIN rr.data
                     THEN [CliIdle EXCEPT !.pc = "request", !.name = name, !.cmd = cmd,
                                          !.port = rr.data[name].port]
                     ELSE [CliIdle EXCEPT !.cmd = cmd, !.answer = noInstance,
                             !.exit = commandExit(cmd, noInstance, rejection)]]
  /\ UNCHANGED <<alive, daemons, nextPid, foreign>>
  /\ UNCHANGED <<daemonVars, regKind>>

\* The request of the command comes back.
CommandAnswer(c, answer, rejection) ==
  /\ cli[c].pc = "request"
  /\ answer.kind = "refused" <=> cli[c].port \notin BoundPorts
  /\ cli' = [cli EXCEPT ![c] =
               [CliIdle EXCEPT !.cmd = cli[c].cmd, !.answer = answer,
                  !.exit = commandExit(cli[c].cmd, answer, rejection)]]
  /\ UNCHANGED <<regFile, alive, daemons, nextPid, foreign>>
  /\ UNCHANGED <<daemonVars, regKind>>

(***************************************************************************)
(* Inputs of the requests.                                                 *)
(***************************************************************************)
Slots == {1}

Chars == {"a", "b", "*"}
HtmlSources == UNION {[1..n -> Chars] : n \in 0..MaxHtmlLen}
\* Secrets: one inside another, two that overlap, and one with a "*".
SecretValues == {<<"a">>, <<"a", "b">>, <<"b", "a">>, <<"*">>}
\* The secrets of the requests whose history is followed.
HistorySecrets == {<<"a">>, <<"a", "b">>}
CssToken == <<"#", "p">>
TextValue == <<"a">>
\* The url of the model is also one of the secret values.
UrlValue == <<"a">>
\* Tab indices: missing, null (what JSON makes of NaN), the whole numbers
\* from -1 to 2 and the fraction 1/2.
IndexValues ==
  {NoIndex, [kind |-> "null", val |-> 0], [kind |-> "fraction", val |-> 0]}
    \cup {[kind |-> "number", val |-> v] : v \in -1..2}

\* The strings that reach the daemon in the secret field only.
SecretOnly == HistorySecrets \ {CssToken, UrlValue}

\* A CDP answer for <ul> with two children named n5 and n6, three
\* accessibility nodes with the ids a[1..3], the root backed by the
\* document, the other two by the DOM nodes with backend ids b2 and b3.
Doc(n5, n6, a, b2, b3) ==
  [dom |-> << [nodeId |-> 1, backendNodeId |-> 11, nodeName |-> "#document", children |-> <<2>>],
              [nodeId |-> 2, backendNodeId |-> 12, nodeName |-> "HTML", children |-> <<3>>],
              [nodeId |-> 3, backendNodeId |-> 13, nodeName |-> "BODY", children |-> <<4>>],
              [nodeId |-> 4, backendNodeId |-> 14, nodeName |-> "UL", children |-> <<5, 6>>],
              [nodeId |-> 5, backendNodeId |-> 15, nodeName |-> n5, children |-> <<>>],
              [nodeId |-> 6, backendNodeId |-> 16, nodeName |-> n6, children |-> <<>>] >>,
   ax |-> << [nodeId |-> a[1], backendDOMNodeId |-> 11, childIds |-> <<a[2], a[3]>>],
             [nodeId |-> a[2], backendDOMNodeId |-> b2, childIds |-> <<>>],
             [nodeId |-> a[3], backendDOMNodeId |-> b3, childIds |-> <<>>] >>]

MaxAxId == 7
ElementNames == {"LI", "li"}

\* <ul><li>a</li><li>b</li></ul> with the accessibility ids 1, 2, 3.
ListDoc == Doc("LI", "LI", <<1, 2, 3>>, 15, 16)

\* The accessibility ids of TreeDocs: the nodeIds of <ul> and of its two
\* children, and ids that no DOM node has.
AxIds == ListDoc.dom[4].nodeId..MaxAxId
TreeDocs ==
  {Doc(n5, n6, a, b2, b3) :
     n5 \in ElementNames, n6 \in ElementNames,
     a \in {f \in [1..3 -> AxIds] : \A i, j \in 1..3 : i # j => f[i] # f[j]},
     b2 \in {0, 15, 16}, b3 \in {0, 15, 16}}
NoDoc == [dom |-> <<>>, ax |-> <<>>]

\* Two CDP answers whose maps have different keys: the list with the
\* accessibility ids 1, 2, 3 and with the ids 1, 2 and MaxAxId.
MapDocs == {ListDoc, Doc("LI", "LI", <<1, 2, MaxAxId>>, 15, 16)}

\* Two connections, for requests that overlap.
Pair == {1, 2}

\* Selector tokens: two numeric IDs, a number that is no ID, a CSS selector
\* and a missing selector.
SelTokens == {<<"2">>, <<"9">>, <<"2", ".">>, CssToken, Undefined}
\* The outcomes of the detection loop of fill-search: no match, the first
\* selector of the list, the last one.
FirstMatches == {0, 1, Len(searchSelectors)}
IdValues == {ToStr(n) : n \in 1..MaxAxId} \cup {Undefined}

\* The registry entries that exist when the model starts: each of PreNames
\* may be registered, with the pid of its position.
PreNames == <<"default", "w1", "w2">>
PrePid(name) == CHOOSE i \in 1..Len(PreNames) : PreNames[i] = name
PreRegistries ==
  UNION {{f \in [{PreNames[i] : i \in I} -> Ports] :
            \A i, j \in I : i < j => f[PreNames[i]] < f[PreNames[j]]} :
         I \in SUBSET (1..Len(PreNames))}
ForeignPorts == {BasePort + 1}
\* The check commands, the names they are run with, and what their request
\* can come back with.
CheckCommands == {"exists", "visible", "assert"}
CheckNames == {"default", "w1", "w3"}
TruthValues == {"true", "false", "undefined"}
CheckAnswers ==
  {[NoAnswer EXCEPT !.kind = k] : k \in {"refused", "connError"}}
  \cup {[kind |-> "http", status |-> st, json |-> "object", result |-> v, pass |-> w] :
          st \in {200, 404, 500}, v \in TruthValues, w \in TruthValues}
  \cup {[NoAnswer EXCEPT !.kind = "http", !.status = st, !.json = j] :
          st \in {200, 404, 500}, j \in {"null", "text"}}
\* Commands of the families navigation, interaction, exports, waits, eval
\* and history.
PlainCommands == {"goto", "click", "wait", "eval", "pdf", "screenshot", "history"}
\* What their request can come back with.
CommandAnswers ==
  {[NoAnswer EXCEPT !.kind = k] : k \in {"refused", "connError"}}
  \cup {[NoAnswer EXCEPT !.kind = "http", !.status = st, !.json = j] :
          st \in {200, 404, 500}, j \in {"object", "null", "text"}}
\* The names br start is run with: the default instance and a new name.
StartNames == {"default", "w3"}

(***************************************************************************)
(* POST /scroll-to {percentage}. A JSON value is [kind, val, str]: kind    *)
(* "undefined" for a missing field, "null", "number" for the whole number  *)
(* val, "string" for the string str. A JavaScript number is [kind, val]    *)
(* with kind "number" or "nan".                                            *)
(***************************************************************************)
NaN == [kind |-> "nan", val |-> 0]
Num(n) == [kind |-> "number", val |-> n]

\* String.prototype.trim, for the space character.
RECURSIVE trim(_)
trim(s) ==
  IF s = <<>> THEN s
  ELSE IF Head(s) = " " THEN trim(Tail(s))
  ELSE IF s[Len(s)] = " " THEN trim(SubSeq(s, 1, Len(s) - 1))
  ELSE s

\* The value of a string of decimal digits.
RECURSIVE DigitsValue(_)
DigitsValue(s) ==
  IF s = <<>> THEN 0
  ELSE 10 * DigitsValue(SubSeq(s, 1, Len(s) - 1))
         + (CHOOSE d \in 0..9 : DigitChars[d + 1] = s[Len(s)])

IsDigits(s) == s # <<>> /\ \A i \in 1..Len(s) : s[i] \in Digit

\* Number(string), for strings of spaces, signs, digits and letters: the
\* trimmed string is empty (0), a whole number with an optional sign, or
\* not a number.
StringToNumber(s) ==
  LET t == trim(s) IN
    IF t = <<>> THEN Num(0)
    ELSE IF IsDigits(t) THEN Num(DigitsValue(t))
    ELSE IF Head(t) \in {"-", "+"} /\ IsDigits(Tail(t))
    THEN Num((IF Head(t) = "-" THEN -1 ELSE 1) * DigitsValue(Tail(t)))
    ELSE NaN

\* Number(value)
Number(v) ==
  CASE v.kind = "number" -> Num(v.val)
    [] v.kind = "null" -> Num(0)
    [] v.kind = "string" -> StringToNumber(v.str)
    [] OTHER -> NaN

\* Math.min and Math.max: not a number if an argument is.
MathMin(a, b) ==
  IF a.kind = "nan" \/ b.kind = "nan" THEN NaN
  ELSE IF a.val <= b.val THEN a ELSE b
MathMax(a, b) ==
  IF a.kind = "nan" \/ b.kind = "nan" THEN NaN
  ELSE IF a.val >= b.val THEN a ELSE b

\* Math.max(0, Math.min(100, Number(percentage)))
clampPercentage(v) == MathMax(Num(0), MathMin(Num(100), Number(v)))

\* The handler up to the await of page.evaluate; the argument of the
\* evaluation is kept in the request.
ScrollToArrive(r, percentage) ==
  /\ running
  /\ reqs[r].pc = "idle"
  /\ IF percentage.kind = "undefined"
     THEN Send(r, Reply("scroll-to", <<>>, 400, "missing-field", "missing percentage",
                        Undefined, NoHint))
     ELSE IF getActivePage = NoPage
     THEN Send(r, Reply("scroll-to", <<>>, 500, "driver-error", "err.message", Undefined, NoHint))
     ELSE /\ Suspend(r, "scroll", "scroll-to", <<>>, <<>>, clampPercentage(percentage),
                     getActivePage)
          /\ resp' = NoResp
  /\ UNCHANGED <<pages, activePage, pagesEver, secrets, history, lastIdToXPath, lastTree>>
  /\ UNCHANGED <<running, exitCode, auxVars, regVars>>

\* page.evaluate has returned or thrown.
ScrollToDone(r, ok) ==
  /\ running
  /\ reqs[r].pc = "scroll"
  /\ IF ok
     THEN /\ Len(history) < MaxHistory
          /\ history' = record(history, "scrollTo", [percentage |-> reqs[r].arg])
          /\ Send(r, Reply("scroll-to", <<>>, 200, "none", "ok", Undefined, NoHint))
     ELSE /\ Send(r, Reply("scroll-to", <<>>, 500, "driver-error", "err.message", Undefined, NoHint))
          /\ UNCHANGED history
  /\ UNCHANGED <<pages, activePage, pagesEver, secrets, lastIdToXPath, lastTree>>
  /\ UNCHANGED <<running, exitCode, auxVars, regVars>>

\* The percentages of the requests: missing, null, whole numbers below,
\* inside and above the range, and strings that are numbers, padded
\* numbers, empty, or no number.
PercentageNumbers == {-5, 0, 50, 100, 150}
PercentageStrings ==
  {<<"5", "0">>, <<" ", "7", " ">>, <<"-", "1">>, <<"1", "5", "0">>, <<>>, <<"a", "b", "c">>}
PercentageValues ==
  {[kind |-> k, val |-> 0, str |-> <<>>] : k \in {"undefined", "null"}}
    \cup {[kind |-> "number", val |-> n, str |-> <<>>] : n \in PercentageNumbers}
    \cup {[kind |-> "string", val |-> 0, str |-> s] : s \in PercentageStrings}

(***************************************************************************)
(* waitForChallengeBypass(page, maxWaitSeconds = 8). Time is counted in    *)
(* milliseconds since startTime.                                           *)
(***************************************************************************)
DefaultMaxWaitSeconds == 8
PollMs == 100

\* detectChallengePage that lets the error of page.evaluate count as a
\* challenge.
detectChallengePageNoCatch(outcome) ==
  IF outcome = "clean" THEN "false" ELSE outcome

\* detectChallengePage: the name of the challenge the page script found,
\* false when it found none or threw.
detectChallengePage(outcome) ==
  IF outcome \in {"clean", "throw"} THEN "false" ELSE outcome

\* The call: const startTime = Date.now()
BypassCall(maxWaitSeconds) ==
  /\ running
  /\ bypass.pc \in {"idle", "done"}
  /\ bypass' = [pc |-> "test", elapsed |-> 0, max |-> maxWaitSeconds,
                last |-> "none", result |-> "none"]
  /\ UNCHANGED <<pages, activePage, pagesEver, secrets, history, lastIdToXPath, reqs, resp, lastTree>>
  /\ UNCHANGED <<running, exitCode, consoleLogs, consoleEvents, files, shuttingDown, browser, regVars>>

\* while (Date.now() - startTime < maxWaitSeconds * 1000), and return false
\* after the loop.
BypassTest ==
  /\ running
  /\ bypass.pc = "test"
  /\ bypass' = IF bypass.elapsed < bypass.max * 1000
               THEN [bypass EXCEPT !.pc = "detect"]
               ELSE [bypass EXCEPT !.pc = "done", !.result = "false"]
  /\ UNCHANGED <<pages, activePage, pagesEver, secrets, history, lastIdToXPath, reqs, resp, lastTree>>
  /\ UNCHANGED <<running, exitCode, consoleLogs, consoleEvents, files, shuttingDown, browser, regVars>>

\* await detectChallengePage(page) has taken ms milliseconds; return true
\* if (!challenge).
BypassDetected(outcome, ms) ==
  /\ running
  /\ bypass.pc = "detect"
  /\ LET challenge == detectChallengePage(outcome) IN
       bypass' = IF challenge = "false"
                 THEN [bypass EXCEPT !.pc = "done", !.result = "true", !.last = outcome,
                                     !.elapsed = @ + ms]
                 ELSE [bypass EXCEPT !.pc = "wait", !.last = outcome, !.elapsed = @ + ms]
  /\ UNCHANGED <<pages, activePage, pagesEver, secrets, history, lastIdToXPath, reqs, resp, lastTree>>
  /\ UNCHANGED <<running, exitCode, consoleLogs, consoleEvents, files, shuttingDown, browser, regVars>>

\* await page.waitForTimeout(100) has resolved after ms milliseconds, or
\* has been rejected because the page was closed.
BypassWaited(ms, ok) ==
  /\ running
  /\ bypass.pc = "wait"
  /\ ms >= PollMs
  /\ bypass' = IF ok
               THEN [bypass EXCEPT !.pc = "test", !.elapsed = @ + ms]
               ELSE [bypass EXCEPT !.pc = "done", !.result = "threw", !.elapsed = @ + ms]
  /\ UNCHANGED <<pages, activePage, pagesEver, secrets, history, lastIdToXPath, reqs, resp, lastTree>>
  /\ UNCHANGED <<running, exitCode, consoleLogs, consoleEvents, files, shuttingDown, browser, regVars>>

\* What the page script finds, or that it throws.
DetectOutcomes == {"cloudflare", "siteground", "clean", "throw"}
\* How long a detection and a wait of 100 ms can take.
DetectMs == {0, 100, 3000}
WaitMs == {PollMs, 2 * PollMs}
\* The deadlines of the calls: the default, and shorter ones.
MaxWaitSeconds == {0, 1, DefaultMaxWaitSeconds}

(***************************************************************************)
(* Termination of the daemon: SIGINT/SIGTERM and the browser's             *)
(* 'disconnected' event. browser is "up", "closing" once context.close()   *)
(* has been called, "gone" once the browser has disconnected.              *)
(***************************************************************************)
\* A shutdown that calls context.close() without setting the flag.
ShutdownNoFlag ==
  /\ running
  /\ browser' = (IF browser = "up" THEN "closing" ELSE browser)
  /\ UNCHANGED <<pages, activePage, pagesEver, secrets, history, lastIdToXPath, reqs, resp, lastTree>>
  /\ UNCHANGED <<running, exitCode, consoleLogs, consoleEvents, files, shuttingDown, bypass, regVars>>

\* shutdown(), up to its await: the flag is set, then context.close() is
\* called.
Shutdown ==
  /\ running
  /\ shuttingDown' = TRUE
  /\ browser' = (IF browser = "up" THEN "closing" ELSE browser)
  /\ UNCHANGED <<pages, activePage, pagesEver, secrets, history, lastIdToXPath, reqs, resp, lastTree>>
  /\ UNCHANGED <<running, exitCode, consoleLogs, consoleEvents, files, bypass, regVars>>

\* browser.on('disconnected'): the browser has gone, by itself or because
\* the context was closed; the process exits unless the flag is set.
BrowserDisconnected ==
  /\ running
  /\ browser # "gone"
  /\ browser' = "gone"
  /\ IF ~shuttingDown
     THEN running' = FALSE /\ exitCode' = 0
     ELSE UNCHANGED <<running, exitCode>>
  /\ UNCHANGED <<pages, activePage, pagesEver, secrets, history, lastIdToXPath, reqs, resp, lastTree>>
  /\ UNCHANGED <<consoleLogs, consoleEvents, files, shuttingDown, bypass, regVars>>

\* shutdown(), after its await: context.close() has resolved, the process
\* exits.
ShutdownExit ==
  /\ running
  /\ shuttingDown
  /\ browser = "gone"
  /\ running' = FALSE
  /\ exitCode' = 0
  /\ UNCHANGED <<pages, activePage, pagesEver, secrets, history, lastIdToXPath, reqs, resp, lastTree>>
  /\ UNCHANGED <<auxVars, regVars>>

(***************************************************************************)
(* The specifications.                                                     *)
(***************************************************************************)
\* The daemon serving fill-secret, history, goto and tab requests, with at
\* most MaxOpened pages ever opened.
Init ==
  /\ pages = <<1>>
  /\ activePage = 1
  /\ pagesEver = 1
  /\ secrets = <<>>
  /\ history = <<>>
  /\ lastIdToXPath = <<>>
  /\ reqs = [r \in Slots |-> Idle]
  /\ resp = NoResp
  /\ lastTree = NoTree
  /\ running = TRUE
  /\ consoleLogs = <<>>
  /\ consoleEvents = 0
  /\ files = <<>>
  /\ shuttingDown = FALSE
  /\ bypass = NoBypass
  /\ browser = "up"
  /\ exitCode = -1
  /\ regFile = <<>>
  /\ alive = {}
  /\ daemons = <<>>
  /\ nextPid = 1
  /\ foreign = {}
  /\ cli = [c \in Clis |-> CliIdle]
  /\ regKind = "json"

Next ==
  \E r \in Slots :
    \/ \E s \in HistorySecrets \cup {Undefined} : InteractionArrive(r, "fill-secret", CssToken, s)
    \/ \E outcome \in {"none", "found", "throw"} : InteractionChecked(r, outcome)
    \/ \E ok \in BOOLEAN : InteractionActed(r, ok)
    \/ HistoryGet(r)
    \/ HistoryClear(r)
    \/ \E url \in {UrlValue, Undefined} : SimpleArrive(r, "goto", url)
    \/ \E ok \in BOOLEAN : SimpleDone(r, ok)
    \/ \E index \in IndexValues : TabsSwitch(r, index)
    \/ PageOpened /\ pagesEver' <= MaxOpened

Spec == Init /\ [][Next]_vars

\* The daemon serving fill-secret and html requests, with goto, tab and
\* history/clear requests in between, while the history holds at most
\* MaxSelHistory entries.
NextMask ==
  \E r \in Slots :
    \/ \E s \in SecretValues \cup {Undefined} : InteractionArrive(r, "fill-secret", CssToken, s)
    \/ \E outcome \in {"none", "found", "throw"} : InteractionChecked(r, outcome)
    \/ \E ok \in BOOLEAN : InteractionActed(r, ok) /\ Len(history') <= MaxSelHistory
    \/ HtmlArrive(r)
    \/ \E ok \in BOOLEAN, source \in HtmlSources : HtmlDone(r, ok, source)
    \/ HistoryClear(r)
    \/ \E url \in {UrlValue, Undefined} : SimpleArrive(r, "goto", url)
    \/ \E ok \in BOOLEAN : SimpleDone(r, ok) /\ Len(history') <= MaxSelHistory
    \/ \E index \in IndexValues : TabsSwitch(r, index) /\ Len(history') <= MaxSelHistory
    \/ PageOpened /\ pagesEver' <= MaxOpened

SpecMask == Init /\ [][NextMask]_vars

\* The daemon serving the endpoints that take a selector, with GET /tree
\* providing the map, while the history holds at most MaxSelHistory entries.
NextSel ==
  \E r \in Slots :
    \/ \E ep \in InteractionEndpoints, tok \in SelTokens, arg \in {TextValue, Undefined} :
         InteractionArrive(r, ep, tok, arg)
    \/ \E outcome \in {"none", "found", "throw"} : InteractionChecked(r, outcome)
    \/ \E ok \in BOOLEAN : InteractionActed(r, ok) /\ Len(history') <= MaxSelHistory
    \/ \E query \in {TextValue, Undefined}, tok \in SelTokens : FillSearchArrive(r, query, tok)
    \/ \E outcome \in {"none", "found", "throw"} : FillSearchChecked(r, outcome)
    \/ \E first \in FirstMatches : FillSearchDetected(r, first)
    \/ \E ok \in BOOLEAN : FillSearchFilled(r, ok)
    \/ \E ok \in BOOLEAN : FillSearchPressed(r, ok) /\ Len(history') <= MaxSelHistory
    \/ TreeArrive(r)
    \/ \E ok \in BOOLEAN : TreeDone(r, ok, ListDoc)
    \/ \E id \in SelTokens : XPathForId(r, id)
    \/ \E closedPage \in 1..MaxPagesEver : PageClosed(closedPage)

SpecSel == Init /\ [][NextSel]_vars

\* The daemon serving its first successful GET /tree, for every CDP answer
\* of TreeDocs, and POST /xpath-for-id.
NextTree ==
  \E r \in Slots :
    \/ TreeArrive(r)
    \/ \E ok \in BOOLEAN, doc \in TreeDocs \cup {NoDoc} :
         lastTree = NoTree /\ TreeDone(r, ok, doc)
    \/ \E id \in IdValues : XPathForId(r, id)

SpecTree == Init /\ [][NextTree]_vars

\* The state after start-up of a daemon with two connections.
InitPair ==
  /\ pages = <<1>>
  /\ activePage = 1
  /\ pagesEver = 1
  /\ secrets = <<>>
  /\ history = <<>>
  /\ lastIdToXPath = <<>>
  /\ reqs = [r \in Pair |-> Idle]
  /\ resp = NoResp
  /\ lastTree = NoTree
  /\ running = TRUE
  /\ consoleLogs = <<>>
  /\ consoleEvents = 0
  /\ files = <<>>
  /\ shuttingDown = FALSE
  /\ bypass = NoBypass
  /\ browser = "up"
  /\ exitCode = -1
  /\ regFile = <<>>
  /\ alive = {}
  /\ daemons = <<>>
  /\ nextPid = 1
  /\ foreign = {}
  /\ cli = [c \in Clis |-> CliIdle]
  /\ regKind = "json"

\* The daemon while tabs are opened, closed and switched, serving requests
\* that need the active tab, GET /health and GET /tabs, while the history
\* holds at most MaxSelHistory entries.
NextTabs ==
  \/ PageOpened
  \/ \E closedPage \in 1..MaxPagesEver : PageClosed(closedPage)
  \/ \E page \in 1..MaxPagesEver, fatal \in BOOLEAN : FrameNavigated(page, fatal)
  \/ \E r \in Slots :
       \/ \E index \in IndexValues : TabsSwitch(r, index) /\ Len(history') <= MaxSelHistory
       \/ Health(r)
       \/ TabsArrive(r)
       \/ \E ok \in BOOLEAN : TabsDone(r, ok)
       \/ \E url \in {UrlValue, Undefined} : SimpleArrive(r, "goto", url)
       \/ \E ok \in BOOLEAN : SimpleDone(r, ok) /\ Len(history') <= MaxSelHistory
       \/ \E tok \in {CssToken, Undefined} : InteractionArrive(r, "click", tok, Undefined)
       \/ \E outcome \in {"none", "found", "throw"} : InteractionChecked(r, outcome)
       \/ \E ok \in BOOLEAN : InteractionActed(r, ok) /\ Len(history') <= MaxSelHistory
       \/ \E query \in {TextValue, Undefined} : FillSearchArrive(r, query, Undefined)
       \/ \E first \in FirstMatches : FillSearchDetected(r, first)
       \/ \E ok \in BOOLEAN : FillSearchFilled(r, ok)
       \/ \E ok \in BOOLEAN : FillSearchPressed(r, ok) /\ Len(history') <= MaxSelHistory
       \/ HtmlArrive(r)
       \/ \E ok \in BOOLEAN : HtmlDone(r, ok, <<>>)
       \/ TreeArrive(r)
       \/ \E ok \in BOOLEAN : TreeDone(r, ok, ListDoc)

SpecTabs == Init /\ [][NextTabs]_vars

\* The daemon serving GET /tree, POST /xpath-for-id and POST /click requests
\* that overlap, while the history holds at most MaxSelHistory entries.
NextMap ==
  \E r \in Pair :
    \/ TreeArrive(r)
    \/ \E ok \in BOOLEAN, doc \in MapDocs : TreeDone(r, ok, doc)
    \/ \E id \in IdValues : XPathForId(r, id)
    \/ \E tok \in {ToStr(3), ToStr(MaxAxId)} : InteractionArrive(r, "click", tok, Undefined)
    \/ \E outcome \in {"none", "found", "throw"} : InteractionChecked(r, outcome)
    \/ \E ok \in BOOLEAN : InteractionActed(r, ok) /\ Len(history') <= MaxSelHistory

SpecMap == InitPair /\ [][NextMap]_vars

\* The daemon serving POST /shot next to goto, click, fill-search and
\* tabs requests on two connections, while the history holds at most
\* MaxSelHistory entries.
NextShot ==
  \E r \in Pair :
    \/ \E url \in {UrlValue, Undefined} : ShotArrive(r, url)
    \/ \E ok \in BOOLEAN : ShotPageCreated(r, ok)
    \/ \E ok \in BOOLEAN, transform \in {"none", "throw", "encode"} :
         ShotCaptured(r, ok, transform) /\ Len(history') <= MaxSelHistory
    \/ \E ok \in BOOLEAN : ShotEncoded(r, ok)
    \/ ShotClosed(r)
    \/ TabsArrive(r)
    \/ \E ok \in BOOLEAN : TabsDone(r, ok)
    \/ \E index \in IndexValues : TabsSwitch(r, index) /\ Len(history') <= MaxSelHistory
    \/ \E url \in {UrlValue, Undefined} : SimpleArrive(r, "goto", url)
    \/ \E ok \in BOOLEAN : SimpleDone(r, ok) /\ Len(history') <= MaxSelHistory
    \/ \E tok \in {CssToken, Undefined} : InteractionArrive(r, "click", tok, Undefined)
    \/ \E outcome \in {"none", "found", "throw"} : InteractionChecked(r, outcome)
    \/ \E ok \in BOOLEAN : InteractionActed(r, ok) /\ Len(history') <= MaxSelHistory
    \/ \E query \in {TextValue, Undefined} : FillSearchArrive(r, query, Undefined)
    \/ \E first \in FirstMatches : FillSearchDetected(r, first)
    \/ \E ok \in BOOLEAN : FillSearchFilled(r, ok)
    \/ \E ok \in BOOLEAN : FillSearchPressed(r, ok) /\ Len(history') <= MaxSelHistory

SpecShot == InitPair /\ [][NextShot]_vars

\* A daemon started with BR_HUMANLIKE=true serving goto, click and fill
\* requests on two connections; one tab stays open, so that the tab a goto
\* finds after its first humanDelay is the tab of its arrival.
NextHumanlike ==
  \/ \E r \in Pair :
       \/ \E url \in {UrlValue, Undefined} : SimpleArrive(r, "goto", url)
       \/ \E ok \in BOOLEAN : GotoLoaded(r, ok)
       \/ GotoSettled(r)
       \/ \E ep \in {"click", "fill"}, tok \in {CssToken, Undefined} :
            InteractionArrive(r, ep, tok, TextValue)
       \/ \E outcome \in {"none", "found", "throw"} : InteractionChecked(r, outcome)
       \/ \E ok \in BOOLEAN : InteractionActed(r, ok)
       \/ HistoryGet(r)

SpecHumanlike == InitPair /\ [][NextHumanlike]_vars

\* The URLs of the downloads, the attribute values of an element, and the
\* contents a fetch returns.
DataUrl == DataScheme \o <<",", "a", "b">>
HrefUrl == HttpsScheme \o <<"h">>
SrcUrl == HttpScheme \o <<"s">>
AttrValues == {Null, DataUrl, HrefUrl, SrcUrl}
Contents == {<<>>, <<"a">>, <<"a", "b", "a">>}

\* The daemon serving POST /download.
NextDownload ==
  \E r \in Slots :
    \/ \E tok \in {Undefined, CssToken, DataUrl, HrefUrl} : DownloadArrive(r, tok)
    \/ \E found \in BOOLEAN, href \in AttrValues, src \in AttrValues :
         DownloadChecked(r, found, href, src)
    \/ DownloadAttrs(r)
    \/ \E ok \in BOOLEAN, content \in Contents : DownloadFetched(r, ok, content)

SpecDownload == Init /\ [][NextDownload]_vars

\* Console events and clearing of the console log.
NextConsole ==
  \/ ConsoleEvent
  \/ ConsoleClear

SpecConsole == Init /\ [][NextConsole]_vars

\* The br commands list and start over a registry that holds any entries of
\* PreNames, whose daemons were spawned and have not reached app.listen.
InitRegistry ==
  /\ pages = <<1>>
  /\ activePage = 1
  /\ pagesEver = 1
  /\ secrets = <<>>
  /\ history = <<>>
  /\ lastIdToXPath = <<>>
  /\ reqs = [r \in Slots |-> Idle]
  /\ resp = NoResp
  /\ lastTree = NoTree
  /\ running = TRUE
  /\ consoleLogs = <<>>
  /\ consoleEvents = 0
  /\ files = <<>>
  /\ shuttingDown = FALSE
  /\ bypass = NoBypass
  /\ browser = "up"
  /\ exitCode = -1
  /\ regFile \in {[n \in DOMAIN f |-> [port |-> f[n], pid |-> PrePid(n)]] : f \in PreRegistries}
  /\ alive \in SUBSET {regFile[n].pid : n \in DOMAIN regFile}
  /\ daemons = [p \in {regFile[n].pid : n \in DOMAIN regFile} |->
                  [envPort |-> regFile[PreNames[p]].port, listen |-> 0, signalled |-> FALSE,
                   name |-> PreNames[p]]]
  /\ nextPid = Len(PreNames) + 1
  /\ foreign \in SUBSET ForeignPorts
  /\ cli = [c \in Clis |-> CliIdle]
  /\ regKind = "json"

NextRegistry ==
  \/ \E c \in Clis :
       \/ List(c)
       \/ \E name \in StartNames : StartBegin(c, name)
       \/ \E answer \in {"ok", "error", "other"} : StartHealth(c, answer)
       \/ StartSelect(c)
       \/ StartSpawn(c)
       \/ \E timedOut \in BOOLEAN : StartPoll(c, timedOut)
  \/ \E pid \in 1..MaxPid :
       \/ DaemonListen(pid)
       \/ DaemonExit(pid)

SpecRegistry == InitRegistry /\ [][NextRegistry]_vars

\* br stop and br list over the registries of InitRegistry.
NextStop ==
  \/ \E c \in Clis :
       \/ \E name \in CheckNames : StopBegin(c, name)
       \/ StopWritten(c)
       \/ StopAll(c)
       \/ List(c)
  \/ \E pid \in 1..MaxPid :
       \/ DaemonListen(pid)
       \/ DaemonExit(pid)

SpecStop == InitRegistry /\ [][NextStop]_vars

\* Two br processes at a time.
Procs == {"c1", "c2"}

InitShared ==
  /\ pages = <<1>>
  /\ activePage = 1
  /\ pagesEver = 1
  /\ secrets = <<>>
  /\ history = <<>>
  /\ lastIdToXPath = <<>>
  /\ reqs = [r \in Slots |-> Idle]
  /\ resp = NoResp
  /\ lastTree = NoTree
  /\ running = TRUE
  /\ consoleLogs = <<>>
  /\ consoleEvents = 0
  /\ files = <<>>
  /\ shuttingDown = FALSE
  /\ bypass = NoBypass
  /\ browser = "up"
  /\ exitCode = -1
  /\ regFile \in {[n \in DOMAIN f |-> [port |-> f[n], pid |-> PrePid(n)]] : f \in PreRegistries}
  /\ alive = {regFile[n].pid : n \in DOMAIN regFile}
  /\ daemons = [p \in {regFile[n].pid : n \in DOMAIN regFile} |->
                  [envPort |-> regFile[PreNames[p]].port, listen |-> 0, signalled |-> FALSE,
                   name |-> PreNames[p]]]
  /\ nextPid = Len(PreNames) + 1
  /\ foreign = {}
  /\ cli = [c \in Procs |-> CliIdle]
  /\ regKind = "json"

\* br stop in one process while br list runs in another.
NextShared ==
  \/ \E c \in Procs :
       \/ \E name \in CheckNames : StopBegin(c, name)
       \/ StopWritten(c)
       \/ List(c)
  \/ \E pid \in 1..MaxPid : DaemonExit(pid)

SpecShared == InitShared /\ [][NextShared]_vars

\* instances.json in any condition when br list reads it.
InitFiles ==
  /\ pages = <<1>>
  /\ activePage = 1
  /\ pagesEver = 1
  /\ secrets = <<>>
  /\ history = <<>>
  /\ lastIdToXPath = <<>>
  /\ reqs = [r \in Slots |-> Idle]
  /\ resp = NoResp
  /\ lastTree = NoTree
  /\ running = TRUE
  /\ consoleLogs = <<>>
  /\ consoleEvents = 0
  /\ files = <<>>
  /\ shuttingDown = FALSE
  /\ bypass = NoBypass
  /\ browser = "up"
  /\ exitCode = -1
  /\ regKind \in {"json", "missing", "malformed", "unreadable"}
  /\ regFile \in {[n \in DOMAIN f |-> [port |-> f[n], pid |-> PrePid(n)]] :
                     f \in IF regKind = "json" THEN PreRegistries ELSE {<<>>}}
  /\ alive \in SUBSET (1..Len(PreNames))
  /\ daemons = [p \in 1..Len(PreNames) |->
                  [envPort |-> BasePort, listen |-> 0, signalled |-> FALSE,
                   name |-> PreNames[p]]]
  /\ nextPid = Len(PreNames) + 1
  /\ foreign = {}
  /\ cli = [c \in Clis |-> CliIdle]

NextFiles ==
  \/ \E c \in Clis : List(c)
  \/ \E pid \in 1..MaxPid : DaemonExit(pid)

SpecFiles == InitFiles /\ [][NextFiles]_vars

\* The check commands over the registries of InitRegistry, whose daemons
\* come up and exit.
NextCheck ==
  \/ \E c \in Clis :
       \/ \E cmd \in CheckCommands, name \in CheckNames : CheckBegin(c, cmd, name)
       \/ \E answer \in CheckAnswers : CheckAnswer(c, answer)
  \/ \E pid \in 1..MaxPid :
       \/ DaemonListen(pid)
       \/ DaemonExit(pid)

SpecCheck == InitRegistry /\ [][NextCheck]_vars

\* The commands of br over the registries of InitRegistry.
NextCli ==
  \/ \E c \in Clis :
       \/ \E cmd \in PlainCommands, name \in CheckNames, rejection \in UnhandledRejectionExit :
            CommandBegin(c, cmd, name, rejection)
       \/ \E answer \in CommandAnswers, rejection \in UnhandledRejectionExit :
            CommandAnswer(c, answer, rejection)
  \/ \E pid \in 1..MaxPid :
       \/ DaemonListen(pid)
       \/ DaemonExit(pid)

SpecCli == InitRegistry /\ [][NextCli]_vars

(***************************************************************************)
(* Secret masking and the history of fill-secret.                          *)
(***************************************************************************)
HasStar(s) == \E i \in 1..Len(s) : s[i] = "*"

\* C1 as stated: a successful GET /html response holds no occurrence of any
\* non-empty secret filled before, whatever the secrets are.
C1_NoSecretInHtml ==
  (resp.ep = "html" /\ resp.status = 200) =>
    \A i \in 1..Len(secrets) :
      secrets[i] # <<>> => ~Contains(resp.body, secrets[i])

\* C1 amended: a successful GET /html response holds no occurrence of any
\* non-empty secret filled before that contains no "*".
C1_NoStarlessSecretInHtml ==
  (resp.ep = "html" /\ resp.status = 200) =>
    \A i \in 1..Len(secrets) :
      (secrets[i] # <<>> /\ ~HasStar(secrets[i])) => ~Contains(resp.body, secrets[i])

\* Two secrets are set, and the page source of a GET /html held one that has
\* no "*".
C1_Witness ==
  /\ resp.ep = "html"
  /\ resp.status = 200
  /\ Len(secrets) >= 2
  /\ \E i \in 1..Len(secrets) : ~HasStar(secrets[i]) /\ Contains(resp.src, secrets[i])

\* The arguments of a history entry that are strings.
StringArgs(entry) == {entry.args[f] : f \in (DOMAIN entry.args) \ {"index"}}

\* C2: a fill-secret entry of the history holds the selector only, and no
\* entry of the history, nor of a GET /history response, holds a string that
\* reached the daemon in the secret field only.
C2_HistoryHasNoSecret ==
  \A h \in {history, resp.hist} :
    \A i \in 1..Len(h) :
      /\ h[i].action = "fill-secret" => DOMAIN h[i].args = {"selector"}
      /\ StringArgs(h[i]) \cap SecretOnly = {}

\* GET /history returned a fill-secret entry after a secret of the secret
\* field only was filled.
C2_Witness ==
  /\ resp.ep = "history"
  /\ \E i \in 1..Len(resp.hist) : resp.hist[i].action = "fill-secret"
  /\ \E j \in 1..Len(secrets) : secrets[j] \in SecretOnly

(***************************************************************************)
(* The registry: pruning, port allocation, and the port a daemon binds.    *)
(***************************************************************************)
LiveNames == {n \in DOMAIN regFile : regFile[n].pid \in alive}
LivePorts == {regFile[n].port : n \in LiveNames}
FreePorts == {p \in BasePort..(BasePort + NumPorts) : p \notin LivePorts /\ p \notin BoundPorts}

C4_AllocatesLowestFreePort ==
  [][\A c \in Clis :
       (cli[c].pc = "select" /\ cli'[c].pc = "spawn") =>
         LET preferred == /\ cli[c].name = "default"
                          /\ "default" \notin LiveNames
                          /\ BasePort \notin BoundPorts
         IN /\ ~preferred => /\ cli'[c].port \in FreePorts
                             /\ \A p \in FreePorts : cli'[c].port <= p
            /\ (cli[c].name = "default" /\ LiveNames = {} /\ BasePort \notin BoundPorts)
                 => cli'[c].port = BasePort]_vars

\* With live entries on 3030, 3031 and 3033 and no port bound, start of a new
\* name was given 3032.
C4_Witness ==
  /\ cli["c1"].pc = "spawn"
  /\ cli["c1"].port = BasePort + 2
  /\ LivePorts = {BasePort, BasePort + 1, BasePort + 3}
  /\ LiveNames = DOMAIN regFile
  /\ BoundPorts = {}

\* C5: a daemon that listens, listens on the port it was handed as BR_PORT.
C5_DaemonBindsAllocatedPort ==
  \A p \in DOMAIN daemons :
    daemons[p].listen # 0 => daemons[p].listen = daemons[p].envPort

(***************************************************************************)
(* Selector resolution.                                                    *)
(***************************************************************************)
SelectorEndpoints == InteractionEndpoints \cup {"fill-search"}

\* A decimal number: a non-empty string of digits.
IsDecimal(tok) ==
  /\ tok # Undefined
  /\ Len(tok) > 0
  /\ \A i \in 1..Len(tok) : tok[i] \in Digit

\* C6: when an interaction endpoint hands its selector to the driver, a
\* decimal token that is a key of the ID->XPath map goes as the mapped XPath
\* and a token that is not numeric goes unchanged; the action is performed
\* with that same selector; and a token that is a key of the map is never
\* rejected as an unknown ID.
C6_NumericIdResolved ==
  [][\A r \in Slots :
       /\ (reqs[r].pc = "idle" /\ reqs'[r].pc = "check" /\ reqs'[r].ep \in InteractionEndpoints) =>
            LET q == reqs'[r] IN
            /\ (IsDecimal(q.token) /\ q.token \in DOMAIN lastIdToXPath)
                 => q.actual = lastIdToXPath[q.token]
            /\ ~IsNumeric(q.token) => q.actual = q.token
       /\ (reqs[r].pc = "check" /\ reqs'[r].pc = "act" /\ reqs'[r].ep \in InteractionEndpoints) =>
            /\ reqs'[r].actual = reqs[r].actual
            /\ reqs'[r].token = reqs[r].token
       /\ (resp' # resp /\ resp'.ep \in InteractionEndpoints /\ resp'.cause = "unknown-id") =>
            resp'.token \notin DOMAIN lastIdToXPath]_vars

\* An interaction endpoint performs its action with the XPath mapped to a
\* numeric ID.
C6_Witness ==
  \E r \in Slots :
    /\ reqs[r].pc = "act"
    /\ reqs[r].ep \in InteractionEndpoints
    /\ IsDecimal(reqs[r].token)
    /\ reqs[r].token \in DOMAIN lastIdToXPath
    /\ reqs[r].actual = lastIdToXPath[reqs[r].token]
    /\ reqs[r].actual # reqs[r].token

\* C7: no request is in flight with a numeric token that is not a key of the
\* ID->XPath map, and a numeric token in flight goes to the driver as its
\* mapped XPath, never as itself; the response to a request with such a token
\* is an error, "XPath not found for ID" unless a required field of the
\* request is missing, and the step that sends it leaves the history alone.
C7_UnknownIdRejected ==
  [][\A r \in Slots :
       /\ (reqs'[r].pc # "idle" /\ reqs'[r].ep \in SelectorEndpoints /\ IsNumeric(reqs'[r].token)) =>
            /\ reqs'[r].token \in DOMAIN lastIdToXPath'
            /\ reqs'[r].actual = lastIdToXPath'[reqs'[r].token]
            /\ reqs'[r].actual # reqs'[r].token
       /\ (/\ resp' # resp
           /\ resp'.ep \in SelectorEndpoints \cup {"xpath-for-id"}
           /\ IsNumeric(resp'.token)
           /\ resp'.token \notin DOMAIN lastIdToXPath) =>
            /\ resp'.status >= 400
            /\ resp'.cause \in {"unknown-id", "missing-field"}
            /\ resp'.cause = "unknown-id" => resp'.msg = "XPath not found for ID"
            /\ history' = history
            /\ reqs'[r].pc = "idle"]_vars

\* With a map in place, an interaction endpoint rejected a numeric token that
\* is not one of its keys.
C7_Witness ==
  /\ resp.ep \in InteractionEndpoints
  /\ resp.cause = "unknown-id"
  /\ IsNumeric(resp.token)
  /\ lastIdToXPath # <<>>
  /\ resp.token \notin DOMAIN lastIdToXPath
  /\ \A r \in Slots : reqs[r].pc = "idle"

\* C8: a response to a selector failure (unknown numeric ID, or no element
\* for the selector) has a 400-class status, carries the token and ends with
\* the hint that lists the three selector forms.
C8_SelectorFailuresAre400 ==
  (resp.ep \in SelectorEndpoints /\ resp.cause \in {"unknown-id", "no-element"}) =>
    /\ resp.status \in 400..499
    /\ resp.carried = resp.token
    /\ resp.hint = SelectorFormsHint

(***************************************************************************)
(* The XPaths of GET /tree.                                                *)
(***************************************************************************)
\* The position in doc.dom of the DOM node behind an accessibility node, or 0.
Backing(doc, axNode) ==
  LET S == {i \in 1..Len(doc.dom) : doc.dom[i].backendNodeId = axNode.backendDOMNodeId}
  IN IF S = {} THEN 0 ELSE SetMin(S)

AxNodeOf(doc, id) == doc.ax[CHOOSE j \in 1..Len(doc.ax) : doc.ax[j].nodeId = id]

\* C9: for every node of the tree sent last whose accessibility node has a
\* backing DOM node, the xpath of the node and the entry of the ID->XPath map
\* under the node's id are both the XPath the DOM traversal computed for that
\* DOM node.
C9_AxXPathIsDomXPath ==
  \A k \in 1..Len(lastTree.nodes) :
    LET node == lastTree.nodes[k]
        d == Backing(lastTree.doc, AxNodeOf(lastTree.doc, node.id))
    IN d # 0 =>
         LET domXPath == lastTree.domXPath[ToStr(lastTree.doc.dom[d].nodeId)]
         IN /\ node.xpath = domXPath
            /\ Lookup(lastIdToXPath, ToStr(node.id)) = domXPath

\* The parent of DOM node i, or 0.
ParentOf(dom, i) ==
  LET S == {p \in 1..Len(dom) : \E k \in 1..Len(dom[p].children) : dom[p].children[k] = i}
  IN IF S = {} THEN 0 ELSE SetMin(S)

\* The segment of an element: its lower-cased tag, with [k] when its parent
\* has more than one child with that tag.
ExpectedSegment(dom, i) ==
  LET tag == toLowerCase(dom[i].nodeName)
      p == ParentOf(dom, i)
      kids == IF p = 0 THEN <<>> ELSE dom[p].children
      same == {k \in 1..Len(kids) : toLowerCase(dom[kids[k]].nodeName) = tag}
      at == SetMin({k \in 1..Len(kids) : kids[k] = i})
  IN IF Cardinality(same) > 1
     THEN <<tag, "[">> \o ToStr(Cardinality({k \in same : k <= at})) \o <<"]">>
     ELSE <<tag>>

\* The chain of the segments from the document root down to element i.
RECURSIVE ExpectedXPath(_, _)
ExpectedXPath(dom, i) ==
  IF dom[i].nodeName = "#document" THEN <<>>
  ELSE ExpectedXPath(dom, ParentOf(dom, i)) \o <<"/">> \o ExpectedSegment(dom, i)

Elements(dom) == {i \in 1..Len(dom) : dom[i].nodeName # "#document"}

\* C10: the XPath the DOM traversal of the tree sent last computed for every
\* element is the chain of its segments with a single leading "/", and two
\* elements never have the same XPath.
C10_XPathFormat ==
  LET dom == lastTree.doc.dom IN
  /\ \A i \in Elements(dom) :
       lastTree.domXPath[ToStr(dom[i].nodeId)] = ExpectedXPath(dom, i)
  /\ \A i, j \in Elements(dom) :
       i # j => lastTree.domXPath[ToStr(dom[i].nodeId)] # lastTree.domXPath[ToStr(dom[j].nodeId)]

(***************************************************************************)
(* Tabs.                                                                   *)
(***************************************************************************)
\* C12: POST /tabs/switch with a whole number in [0, number of tabs) is
\* answered with success, makes the tab at that position the active one and
\* appends a switch-tab entry with that index; with a missing index, or a
\* number below 0 or not below the number of tabs, it is answered 400 and the
\* active tab and the history stay as they are.
C12_TabsSwitch ==
  [][(resp' # resp /\ resp'.ep = "switch-tab") =>
       LET index == resp'.index
           len == Len(pages)
       IN /\ (index.kind = "number" /\ index.val \in 0..(len - 1)) =>
               /\ resp'.status = 200
               /\ activePage' = pages[index.val + 1]
               /\ history' = Append(history, [action |-> "switch-tab",
                                              args |-> [index |-> index]])
               /\ pages' = pages
          /\ (\/ index.kind = "undefined"
              \/ index.kind \in {"number", "fraction"} /\ (index.val < 0 \/ index.val >= len)) =>
               /\ resp'.status = 400
               /\ activePage' = activePage
               /\ history' = history
               /\ pages' = pages]_vars

\* With two tabs open and the second one active, a switch to index 0 made
\* the first tab active and was recorded.
C12_Witness ==
  /\ resp.ep = "switch-tab"
  /\ resp.status = 200
  /\ resp.index = [kind |-> "number", val |-> 0]
  /\ Len(pages) = 2
  /\ activePage = pages[1]
  /\ Len(history) = 2
  /\ history[1].action = "goto"
  /\ history[2] = [action |-> "switch-tab", args |-> [index |-> resp.index]]

(***************************************************************************)
(* The stored map and the GET /tree invocations.                           *)
(***************************************************************************)
\* C11: the stored ID->XPath map is empty until a GET /tree has completed,
\* and then it is exactly the map of the GET /tree that completed last: an id
\* that POST /xpath-for-id resolves is a key of that map, and resolves to its
\* entry there.
C11_MapOfOneTree ==
  /\ lastTree = NoTree => lastIdToXPath = <<>>
  /\ lastTree # NoTree => lastIdToXPath = TreeResult(lastTree.doc).idToXPath
  /\ (resp.ep = "xpath-for-id" /\ resp.status = 200) =>
       /\ lastTree # NoTree
       /\ resp.token \in DOMAIN TreeResult(lastTree.doc).idToXPath
       /\ resp.body = TreeResult(lastTree.doc).idToXPath[resp.token]

\* While another GET /tree is in flight, the map is the one of the list with
\* the ids 1, 2, 3, and the id MaxAxId, a key of the other map, is rejected.
C11_Witness ==
  /\ lastTree.doc = ListDoc
  /\ \E r \in Pair : reqs[r].pc = "act" /\ reqs[r].ep = "tree"
  /\ resp.ep = "xpath-for-id"
  /\ resp.cause = "unknown-id"
  /\ resp.token = ToStr(MaxAxId)

\* The endpoints that work on the active tab.
TabDependent ==
  InteractionEndpoints \cup {"fill-search", "goto", "press", "html", "tree", "switch-tab"}

C14_TabListMaintenance ==
  [][/\ pagesEver' # pagesEver =>
          /\ pages' = Append(pages, pagesEver')
          /\ activePage' = pagesEver'
     /\ Len(pages') < Len(pages) =>
          \E i \in 1..Len(pages) :
            /\ pages' = SubSeq(pages, 1, i - 1) \o SubSeq(pages, i + 1, Len(pages))
            /\ activePage' = IF activePage # pages[i] THEN activePage
                             ELSE IF pages' = <<>> THEN NoPage
                             ELSE pages'[Len(pages')]
     /\ (pagesEver' = pagesEver /\ Len(pages') >= Len(pages)) => pages' = pages]_vars

\* Of three tabs the first, which a switch had made active, was closed: the
\* other two moved down and the last one is active.
C14_Witness ==
  /\ pages = <<2, 3>>
  /\ activePage = 3
  /\ resp.ep = "switch-tab"
  /\ resp.status = 200
  /\ resp.index = [kind |-> "number", val |-> 0]

(***************************************************************************)
(* The history and the responses.                                          *)
(***************************************************************************)
\* The endpoints that act on the browser or on the session.
SideEffecting ==
  InteractionEndpoints \cup {"fill-search", "goto", "press", "switch-tab", "shot"}

\* The step sends the response of the request on connection r.
Answers(r) ==
  /\ resp' # resp
  /\ resp' # NoResp
  /\ reqs'[r] # reqs[r] \/ (reqs' = reqs /\ reqs[r].pc = "idle")

\* C15: when the response of a request to a side-effecting endpoint is sent,
\* the request has appended exactly one history entry if the response is a
\* success and none if it is a 400 or a 500; and a request appends nothing
\* after its response.
C15_OneEntryIffSuccess ==
  [][\A r \in Pair :
       LET appended == reqs[r].recorded + (Len(history') - Len(history)) IN
       /\ (Answers(r) /\ resp'.ep \in SideEffecting) =>
            /\ resp'.status = 200 => appended = 1
            /\ resp'.status \in {400, 500} => appended = 0
       /\ (reqs[r].sent # 0 /\ reqs'[r] # reqs[r]) => history' = history]_vars

\* C16: the selector of a history entry is the token of the request that
\* appended it, for every request that came with a selector.
C16_HistoryKeepsToken ==
  [][\A r \in Slots :
       (/\ Len(history') = Len(history) + 1
        /\ reqs[r].pc # "idle"
        /\ reqs'[r].pc = "idle"
        /\ "selector" \in DOMAIN history'[Len(history')].args
        /\ ~Falsy(reqs[r].token)) =>
         history'[Len(history')].args.selector = reqs[r].token]_vars

\* C18: once the success response of a request has been sent, its handler
\* changes neither the tab list, the active tab, the secret set, the stored
\* map nor the history.
C18_EffectsBeforeResponse ==
  [][\A r \in Pair :
       (reqs[r].sent = 200 /\ reqs'[r] # reqs[r]) =>
         UNCHANGED <<pages, activePage, secrets, lastIdToXPath, history>>]_vars

\* C17: the history changes by appending one entry; and a request whose
\* browser operation completes in a step appends its entry in that step only
\* if no other request, whose operation completed earlier, is still to be
\* recorded (its entry would come later in the history than the entry of
\* an operation that completed after it).
C17_HistoryInCompletionOrder ==
  [][/\ history' # history =>
          /\ Len(history') = Len(history) + 1
          /\ SubSeq(history', 1, Len(history)) = history
     /\ \A r \in Pair :
          (/\ Len(history') > Len(history)
           /\ reqs'[r] # reqs[r]
           /\ reqs[r].pc # "settle") =>
            \A q \in Pair \ {r} : reqs[q].pc # "settle"]_vars

\* C19: while a request is between the check and the end of the action of an
\* interaction endpoint, no other request has a driver operation of an
\* interaction endpoint in progress on the same tab.
C19_PerTabSerialized ==
  \A r \in Pair : \A q \in Pair \ {r} :
    (/\ reqs[r].pc = "act"
     /\ reqs[r].ep \in InteractionEndpoints
     /\ reqs[q].pc \in {"check", "act"}
     /\ reqs[q].ep \in InteractionEndpoints) =>
      reqs[r].page # reqs[q].page


\* The request of a check command was answered with an error: the daemon is
\* not running (no instance, connection refused), the connection failed, or
\* the status is 400 or more.
IsErrorAnswer(answer) ==
  \/ answer.kind \in {"noInstance", "refused", "connError"}
  \/ answer.kind = "http" /\ answer.status >= 400

\* The daemon answered the check of cmd with v: 200 and an object whose
\* result (exists, visible) or pass (assert) is v.
IsCheckAnswer(cmd, answer, v) ==
  /\ answer.kind = "http"
  /\ answer.status = 200
  /\ answer.json = "object"
  /\ (IF cmd = "assert" THEN answer.pass ELSE answer.result) = v

\* C20: a check command that has ended exits 0 on the answer true, 1 on the
\* answer false and 2 on an error; exit 1 never follows an error and exit 2
\* never follows the answer false.
C20_CheckExitCodes ==
  \A c \in Clis :
    (cli[c].cmd \in CheckCommands /\ cli[c].exit # -1) =>
      /\ IsCheckAnswer(cli[c].cmd, cli[c].answer, "true") => cli[c].exit = 0
      /\ IsCheckAnswer(cli[c].cmd, cli[c].answer, "false") => cli[c].exit = 1
      /\ IsErrorAnswer(cli[c].answer) => cli[c].exit = 2
      /\ cli[c].exit = 1 => ~IsErrorAnswer(cli[c].answer)
      /\ cli[c].exit = 2 => ~IsCheckAnswer(cli[c].cmd, cli[c].answer, "false")

\* br assert was answered pass=false by a listening daemon and exited 1,
\* where the response also carries result=true.
C20_Witness ==
  \E c \in Clis :
    /\ cli[c].cmd = "assert"
    /\ cli[c].exit = 1
    /\ IsCheckAnswer("assert", cli[c].answer, "false")
    /\ cli[c].answer.result = "true"


\* C21: a command of the families navigation, interaction, exports, waits,
\* eval and history that has ended after an error (instance not registered,
\* connection refused or failed, status 400 or more) has exited with code 2.
C21_ErrorsExitTwo ==
  \A c \in Clis :
    (/\ cli[c].cmd \in PlainCommands
     /\ cli[c].exit # -1
     /\ IsErrorAnswer(cli[c].answer)) => cli[c].exit = EXIT_ERROR


\* C22: the console log never holds more than 1000 entries, and it holds the
\* most recent events since the last clear, in arrival order: all of them
\* up to 1000 events, the 1000 most recent afterwards.
C22_ConsoleRing ==
  /\ Len(consoleLogs) <= ConsoleCapacity
  /\ Len(consoleLogs) = (IF consoleEvents > ConsoleCapacity
                         THEN ConsoleCapacity ELSE consoleEvents)
  /\ \A i \in 1..Len(consoleLogs) :
       consoleLogs[i] = consoleEvents - Len(consoleLogs) + i

\* After 1500 events 1000 entries remain and the oldest is event 501.
C22_Witness ==
  /\ consoleEvents = MaxConsoleEvents
  /\ Len(consoleLogs) = ConsoleCapacity
  /\ consoleLogs[1] = MaxConsoleEvents - ConsoleCapacity + 1


\* C23: POST /download on an element with neither href nor src is answered
\* 400 'no href or src' and writes no file; with an href that attribute is
\* the URL downloaded, whatever src is; a token that is a URL is the URL
\* downloaded; and the size answered is the length of the file written.
C23_Download ==
  [][\A r \in Slots :
       /\ (reqs[r].pc = "dl-attrs" /\ reqs'[r] # reqs[r]) =>
            /\ reqs[r].actual = <<Null, Null>> =>
                 /\ resp'.status = 400
                 /\ resp'.msg = "no href or src"
                 /\ files' = files
            /\ reqs[r].actual[1] # Null =>
                 /\ reqs'[r].pc = "dl-fetch" => reqs'[r].arg = reqs[r].actual[1]
                 /\ reqs'[r].pc = "idle" =>
                      resp'.status = 200 /\ resp'.body.url = reqs[r].actual[1]
       /\ (reqs[r].pc = "dl-fetch" /\ reqs'[r] # reqs[r] /\ IsUrl(reqs[r].token)) =>
            (resp'.status = 200 => resp'.body.url = reqs[r].token)
       /\ (reqs'[r] # reqs[r] /\ resp'.ep = "download" /\ resp'.status = 200) =>
            /\ Len(files') = Len(files) + 1
            /\ resp'.body.size = Len(files'[Len(files')].content)
            /\ resp'.body.path = files'[Len(files')].path
       /\ (reqs'[r] # reqs[r] /\ resp'.ep = "download" /\ resp'.status # 200) =>
            files' = files]_vars

\* The first scenario of the download test: the href of the element found is
\* a data: URL, and its two bytes are written and answered as size 2.
C23_Witness ==
  /\ resp.ep = "download"
  /\ resp.status = 200
  /\ resp.cause = "href"
  /\ resp.token = CssToken
  /\ resp.body.url = DataUrl
  /\ resp.body.size = 2
  /\ files # <<>>
  /\ files[Len(files)].content = <<"a", "b">>


\* C24: whenever br list reads instances.json, the file holds a complete
\* content (what a finished writeRegistry left there), not an empty or
\* partly written one.
C24_NoTornRead ==
  [][\A c \in Procs :
       (cli[c].pc = "idle" /\ cli'[c].cmd = "list" /\ cli'[c] # cli[c]) =>
         regKind = "json"]_vars

\* C25: br list on an instances.json that is missing, unreadable or not
\* valid JSON gets the empty map from readRegistry, without an exception,
\* and the file is as before.
C25_ReadRegistryNeverRaises ==
  [][\A c \in Clis :
       (cli[c].pc = "idle" /\ cli'[c].cmd = "list" /\ regKind # "json") =>
         /\ cli'[c].data = <<>>
         /\ cli'[c].exit = 0
         /\ regFile' = regFile
         /\ regKind' = regKind]_vars

\* br list has read a malformed instances.json and printed the empty map.
C25_Witness ==
  /\ regKind = "malformed"
  /\ cli["c1"].cmd = "list"
  /\ cli["c1"].exit = 0
  /\ cli["c1"].data = <<>>


\* The entries of the registry whose pid is alive: what readRegistry returns.
LiveEntries(file, live) == readRegistry(file, live).data

C29_RegisterFrame ==
  [][\A c \in Clis :
       /\ (cli[c].pc = "spawn" /\ cli'[c].pc = "poll") =>
            /\ \A n \in DOMAIN regFile \ {cli[c].name} :
                 regFile[n].pid \in alive' =>
                   n \in DOMAIN regFile' /\ regFile'[n] = regFile[n]
            /\ cli[c].name \in DOMAIN regFile'
            /\ regFile'[cli[c].name] = [port |-> cli[c].port, pid |-> cli'[c].pid]
            /\ DOMAIN regFile' \subseteq DOMAIN regFile \cup {cli[c].name}
       /\ (\/ cli[c].pc = "poll" /\ cli'[c].exit = 2
           \/ cli[c].pc = "health" /\ cli'[c].pc = "select" /\ regFile' # regFile) =>
            /\ \A n \in DOMAIN regFile \ {cli[c].name} :
                 regFile[n].pid \in alive =>
                   n \in DOMAIN regFile' /\ regFile'[n] = regFile[n]
            /\ cli[c].name \notin DOMAIN regFile'
            /\ DOMAIN regFile' \subseteq DOMAIN regFile]_vars

\* br start has registered w3 next to two live entries that are still there.
C29_Witness ==
  /\ cli["c1"].pc = "poll"
  /\ cli["c1"].name = "w3"
  /\ "w3" \in DOMAIN regFile
  /\ regFile["w3"].pid = cli["c1"].pid
  /\ Cardinality(DOMAIN regFile) = 3


NextShutdown ==
  \/ \E r \in Pair :
       \/ \E url \in {UrlValue, Undefined} : SimpleArrive(r, "goto", url)
       \/ \E ok \in BOOLEAN : SimpleDone(r, ok) /\ (ok => browser # "gone")
       \/ HistoryGet(r)
       \/ HistoryClear(r)
  \/ Shutdown
  \/ BrowserDisconnected
  \/ ShutdownExit

SpecShutdown == InitPair /\ [][NextShutdown]_vars

NextScroll ==
  \E r \in Pair :
    \/ \E percentage \in PercentageValues : ScrollToArrive(r, percentage)
    \/ \E ok \in BOOLEAN : ScrollToDone(r, ok)
    \/ \E url \in {UrlValue, Undefined} : SimpleArrive(r, "goto", url)
    \/ \E ok \in BOOLEAN : SimpleDone(r, ok)
    \/ HistoryClear(r)

SpecScroll == InitPair /\ [][NextScroll]_vars

\* C30: the value a POST /scroll-to request scrolls with, and the value of
\* every scrollTo entry of the history, is a number from 0 to 100.
C30_ScrollClamped ==
  /\ \A r \in Pair :
       reqs[r].pc = "scroll" =>
         /\ reqs[r].arg.kind = "number"
         /\ 0 <= reqs[r].arg.val
         /\ reqs[r].arg.val <= 100
  /\ \A i \in 1..Len(history) :
       history[i].action = "scrollTo" =>
         /\ history[i].args.percentage.kind = "number"
         /\ 0 <= history[i].args.percentage.val
         /\ history[i].args.percentage.val <= 100


\* Calls of waitForChallengeBypass, one after the other; every pending
\* evaluation and timer of a call is eventually settled.
NextBypass ==
  \/ \E maxWaitSeconds \in MaxWaitSeconds : BypassCall(maxWaitSeconds)
  \/ BypassTest
  \/ \E outcome \in DetectOutcomes, ms \in DetectMs : BypassDetected(outcome, ms)
  \/ \E ms \in WaitMs, ok \in BOOLEAN : BypassWaited(ms, ok)

SpecBypass ==
  /\ Init
  /\ [][NextBypass]_vars
  /\ WF_vars(BypassTest)
  /\ WF_vars(\E outcome \in DetectOutcomes, ms \in DetectMs : BypassDetected(outcome, ms))
  /\ WF_vars(\E ms \in WaitMs, ok \in BOOLEAN : BypassWaited(ms, ok))

\* C31: every call of waitForChallengeBypass ends; it goes on polling only
\* after a detected challenge, and returns true exactly when the last
\* detection found no challenge or failed; it returns false only when the
\* deadline has passed, after a detected challenge if there was a poll.
C31_BypassTerminates ==
  /\ [](/\ bypass.pc \in {"wait", "test"} => bypass.last \in {"none", "cloudflare", "siteground"}
        /\ (bypass.pc = "done" /\ bypass.last \in {"clean", "throw"}) => bypass.result = "true"
        /\ bypass.result = "true" => bypass.last \in {"clean", "throw"}
        /\ bypass.result = "false" =>
             /\ bypass.elapsed >= bypass.max * 1000
             /\ bypass.last \in {"none", "cloudflare", "siteground"})
  /\ (bypass.pc \in {"test", "detect", "wait"}) ~> (bypass.pc = "done")

\* A call with the default deadline has returned false after the deadline,
\* the last detection having found a challenge.
C31_Witness ==
  /\ bypass.pc = "done"
  /\ bypass.result = "false"
  /\ bypass.max = DefaultMaxWaitSeconds
  /\ bypass.elapsed >= 8000
  /\ bypass.last = "cloudflare"


\* C32: br start of a name whose instance answers /health with ok spawns
\* nothing and leaves the registry as it is; when no server answers on the
\* port of the registered instance, its pid is signalled and its entry
\* removed; the entry written after the spawn is that of the new process;
\* and no two daemons that run and were not signalled have the same name.
C32_StartOncePerName ==
  [][\A c \in Clis :
       /\ (cli[c].pc = "health" /\ HealthOk(cli[c].port) /\ cli'[c] # cli[c]) =>
            /\ cli'[c].exit = 0
            /\ UNCHANGED <<regFile, nextPid, alive, daemons>>
       /\ (cli[c].pc = "health" /\ cli[c].port \notin BoundPorts /\ cli'[c] # cli[c]) =>
            /\ cli[c].name \notin DOMAIN regFile'
            /\ cli[c].pid \in alive => daemons'[cli[c].pid].signalled
       /\ (cli[c].pc = "spawn" /\ cli'[c].pc = "poll") =>
            /\ nextPid \notin DOMAIN daemons
            /\ regFile'[cli[c].name].pid = nextPid
       /\ \A p, q \in alive' \cap DOMAIN daemons' :
            (p # q /\ daemons'[p].name = daemons'[q].name) =>
              (daemons'[p].signalled \/ daemons'[q].signalled)]_vars


\* Two br processes run start for the names of StartNames, one after the
\* other or at the same time, from an empty registry; the daemons come up
\* and exit. Two pids are left to spawn with.
InitStarts ==
  /\ pages = <<1>>
  /\ activePage = 1
  /\ pagesEver = 1
  /\ secrets = <<>>
  /\ history = <<>>
  /\ lastIdToXPath = <<>>
  /\ reqs = [r \in Slots |-> Idle]
  /\ resp = NoResp
  /\ lastTree = NoTree
  /\ running = TRUE
  /\ consoleLogs = <<>>
  /\ consoleEvents = 0
  /\ files = <<>>
  /\ shuttingDown = FALSE
  /\ bypass = NoBypass
  /\ browser = "up"
  /\ exitCode = -1
  /\ regFile = <<>>
  /\ alive = {}
  /\ daemons = <<>>
  /\ nextPid = MaxPid - 1
  /\ foreign = {}
  /\ cli = [c \in Procs |-> CliIdle]
  /\ regKind = "json"

NextStarts ==
  \/ \E c \in Procs :
       \/ \E name \in StartNames : StartBegin(c, name)
       \/ \E answer \in {"ok", "error", "other"} : StartHealth(c, answer)
       \/ StartSelect(c)
       \/ StartSpawnRead(c)
       \/ StartRegisterWrite(c)
       \/ \E timedOut \in BOOLEAN : StartPoll(c, timedOut)
  \/ \E pid \in 1..MaxPid :
       \/ DaemonListen(pid)
       \/ DaemonExit(pid)

SpecStarts == InitStarts /\ [][NextStarts]_vars

\* C33: no two entries of the registry carry the same port.
C33_DistinctPorts ==
  \A n, m \in DOMAIN regFile : n # m => regFile[n].port # regFile[m].port


\* C34: while a start command polls its live daemon, no step of a br
\* process working on another name takes its entry out of the registry or
\* changes it.
C34_NoLostRegistration ==
  [][\A c, d \in Procs :
       (/\ c # d
        /\ cli[c].pc = "poll"
        /\ cli[c].pid \in alive
        /\ cli[c].name \in DOMAIN regFile
        /\ regFile[cli[c].name] = [port |-> cli[c].port, pid |-> cli[c].pid]
        /\ cli'[d] # cli[d]
        /\ cli[d].name # cli[c].name) =>
         /\ cli[c].name \in DOMAIN regFile'
         /\ regFile'[cli[c].name] = regFile[cli[c].name]]_vars

\* C40: when start gives up on a daemon that no server answers for, it
\* exits with 2, the registry has no entry for the name, and the spawned
\* process has exited or has been signalled.
C40_TimeoutLeavesNothing ==
  [][\A c \in Procs :
       (/\ cli[c].pc = "poll"
        /\ cli[c].port \notin BoundPorts
        /\ cli'[c].pc = "idle") =>
         /\ cli'[c].exit = EXIT_ERROR
         /\ cli[c].name \notin DOMAIN regFile'
         /\ \/ cli[c].pid \notin alive'
            \/ daemons'[cli[c].pid].signalled]_vars


\* C35: while the tab list is not empty the active tab is one of its tabs,
\* and a GET /tabs answer with tabs marks exactly one of them as active.
C35_ActiveTabInList ==
  /\ pages # <<>> => \E i \in 1..Len(pages) : pages[i] = activePage
  /\ (resp.ep = "tabs" /\ resp.status = 200 /\ resp.body # <<>>) =>
       Cardinality({i \in 1..Len(resp.body) : resp.body[i].isActive}) = 1


\* C36: the action of an interaction request is performed on the tab on
\* which its element check was made, the tab that was active when the
\* request arrived.
C36_ActionOnCheckedTab ==
  [][\A r \in Slots :
       (/\ reqs[r].ep \in InteractionEndpoints
        /\ reqs[r].pc = "check"
        /\ reqs'[r].pc = "act") =>
         reqs'[r].page = reqs[r].page]_vars


\* A session of one or two tabs, the first or the last of them active, in
\* which POST /shot requests are served next to goto and click requests
\* and to tabs that the pages open; no tab is switched or closed by the
\* user.
InitSession ==
  /\ pages \in {<<1>>, <<1, 2>>}
  /\ activePage \in {pages[1], pages[Len(pages)]}
  /\ pagesEver = Len(pages)
  /\ secrets = <<>>
  /\ history = <<>>
  /\ lastIdToXPath = <<>>
  /\ reqs = [r \in Pair |-> Idle]
  /\ resp = NoResp
  /\ lastTree = NoTree
  /\ running = TRUE
  /\ consoleLogs = <<>>
  /\ consoleEvents = 0
  /\ files = <<>>
  /\ shuttingDown = FALSE
  /\ bypass = NoBypass
  /\ browser = "up"
  /\ exitCode = -1
  /\ regFile = <<>>
  /\ alive = {}
  /\ daemons = <<>>
  /\ nextPid = 1
  /\ foreign = {}
  /\ cli = [c \in Clis |-> CliIdle]
  /\ regKind = "json"

NextSession ==
  \/ PageOpened
  \/ \E r \in Pair :
       \/ \E url \in {UrlValue, Undefined} : ShotArrive(r, url)
       \/ \E ok \in BOOLEAN : ShotPageCreated(r, ok)
       \/ \E ok \in BOOLEAN, transform \in {"none", "throw", "encode"} :
            ShotCaptured(r, ok, transform)
       \/ \E ok \in BOOLEAN : ShotEncoded(r, ok)
       \/ ShotClosed(r)
       \/ \E url \in {UrlValue, Undefined} : SimpleArrive(r, "goto", url)
       \/ \E ok \in BOOLEAN : SimpleDone(r, ok)
       \/ \E tok \in {CssToken, Undefined} : InteractionArrive(r, "click", tok, Undefined)
       \/ \E outcome \in {"none", "found", "throw"} : InteractionChecked(r, outcome)
       \/ \E ok \in BOOLEAN : InteractionActed(r, ok)

SpecSession == InitSession /\ [][NextSession]_vars

\* C37: when a POST /shot request ends and the tab list is the list of its
\* arrival with its own page added, the list is again that of its arrival
\* and the active tab is the tab that was active at its arrival; and
\* dismissModals is run on the page of the request.
C37_ShotLeavesSession ==
  [][\A r \in Pair :
       /\ (/\ reqs[r].ep = "shot"
           /\ reqs[r].pc = "close"
           /\ reqs'[r].pc = "idle"
           /\ pages = Append(reqs[r].actual, reqs[r].page)) =>
            /\ pages' = reqs[r].actual
            /\ activePage' = reqs[r].token[1]
       /\ (/\ reqs[r].ep = "shot"
           /\ reqs[r].pc = "capture"
           /\ reqs'[r].recorded = 1) =>
            dismissTarget = reqs[r].page]_vars


(***************************************************************************)
(* The tree nodes without a DOM node and the keys of the stored map.       *)
(***************************************************************************)
\* The ids of the accessibility nodes of the tree sent last that have a
\* backing DOM node, as keys.
BackedIds ==
  {ToStr(lastTree.nodes[k].id) :
     k \in {j \in 1..Len(lastTree.nodes) :
              Backing(lastTree.doc, AxNodeOf(lastTree.doc, lastTree.nodes[j].id)) # 0}}

\* C38: in the tree sent last a node whose accessibility node has no backing
\* DOM node has xpath null and tag null; the keys of the stored ID->XPath map
\* are exactly the ids of the accessibility nodes that have a backing DOM
\* node, and POST /xpath-for-id resolves no other token.
C38_UnbackedNodesAndKeys ==
  lastTree # NoTree =>
    /\ \A k \in 1..Len(lastTree.nodes) :
         LET node == lastTree.nodes[k] IN
         Backing(lastTree.doc, AxNodeOf(lastTree.doc, node.id)) = 0 =>
           /\ node.xpath = Null
           /\ node.tag = Null
    /\ DOMAIN lastIdToXPath = BackedIds
    /\ (resp.ep = "xpath-for-id" /\ resp.status = 200) => resp.token \in BackedIds

(***************************************************************************)
(* What changes the stored map.                                            *)
(***************************************************************************)
\* The daemon serving GET /tree next to navigation, tab switches, tabs that
\* open and close, POST /history/clear and POST /xpath-for-id on two
\* connections, while the history holds at most MaxSelHistory
\* entries.
NextKeep ==
  \/ PageOpened
  \/ \E closedPage \in 1..MaxPagesEver : PageClosed(closedPage)
  \/ \E r \in Pair :
       \/ TreeArrive(r)
       \/ \E ok \in BOOLEAN, doc \in MapDocs : TreeDone(r, ok, doc)
       \/ XPathForId(r, ToStr(3))
       \/ \E index \in {NoIndex, [kind |-> "number", val |-> 0]} : TabsSwitch(r, index) /\ Len(history') <= MaxSelHistory
       \/ SimpleArrive(r, "goto", UrlValue)
       \/ \E ok \in BOOLEAN : SimpleDone(r, ok) /\ Len(history') <= MaxSelHistory
       \/ HistoryClear(r)

SpecKeep == InitPair /\ [][NextKeep]_vars

\* C39: a step that ends with the answer 500 of GET /tree leaves the stored
\* ID->XPath map as it was, and a step that changes the map is the
\* completion of a GET /tree answered 200: navigation, tab switches, tabs
\* opening and closing and POST /history/clear leave it unchanged.
C39_MapChangesOnlyByTree ==
  [][/\ (resp'.ep = "tree" /\ resp'.status = 500) => lastIdToXPath' = lastIdToXPath
     /\ lastIdToXPath' # lastIdToXPath =>
          /\ resp'.ep = "tree"
          /\ resp'.status = 200
          /\ \E r \in Pair : /\ reqs[r].ep = "tree"
                             /\ reqs[r].pc = "act"
                             /\ reqs'[r].pc = "idle"]_vars

\* A GET /tree has failed after a navigation, a new tab and a cleared
\* history, and the map of the earlier tree is still stored.
C39_Witness ==
  /\ resp.ep = "tree"
  /\ resp.status = 500
  /\ lastIdToXPath = TreeResult(ListDoc).idToXPath
  /\ Len(pages) = 2
  /\ activePage = pages[1]
  /\ history = <<>>

====
